---- MODULE Spec2Model ----
(***************************************************************************)
(* A model of scripts/generate_regions.py: the batch job that fetches the  *)
(* country list, filters and normalises it, optionally adds subdivisions   *)
(* of one prioritized country, validates, sorts and writes regions.json.   *)
(*                                                                         *)
(* Python strings are sequences of one-character strings, so that lower(), *)
(* title(), strip() and the code-point order used by sort() are computed.  *)
(* Latitudes and longitudes are fixed-point integers, degrees * Scale.     *)
(***************************************************************************)
EXTENDS Integers, Sequences, FiniteSets, TLC

VARIABLES
  entry,      \* the entry point this run exercises: main, or one function called alone
  pc,         \* position in the code
  args,       \* the parsed command line (argparse namespace)
  exitCode,   \* process exit code, NoExit while running
  out,        \* kinds of messages printed so far
  net,        \* requested |-> an HTTP request was issued, rate_sleeps |-> the
              \* RATE_LIMIT_DELAY sleeps of the function in progress
  retry,      \* locals of make_request_with_retry
  resp,       \* what make_request_with_retry returned last: a response
              \* (some) or None; its body is decoded by the caller
  gen,        \* locals of generate_regions and its result regions_data
  sub,        \* locals of get_country_states / get_geoname_id
  fs,         \* the file system around args.output
  wr,         \* locals of safe_write_json, and what its caller has written
  rad,        \* argument, intermediate and result of calculate_radius
  pol,        \* arguments and result of is_well_known_country or of
              \* process_country_data, when called alone
  exc         \* the exception that reached the entry point, "none" if none

vars ==
  <<entry, pc, args, exitCode, out, net, retry, resp, gen, sub, fs, wr, rad,
    pol, exc>>

----------------------------------------------------------------------------
(* Bounds of the model *)

MaxCountries == 2     \* longest countries response
MaxPlaces == 2        \* longest subdivisions response
MaxWrites == 3        \* safe_write_json calls in a row on one path
MaxAreaK == 70        \* areas 0, AreaStep, ..., MaxAreaK * AreaStep are tried
MaxPolicyCalls == 2   \* calls of is_well_known_country on one triple

----------------------------------------------------------------------------
(* Program constants *)

MAX_RETRIES == 3
RETRY_DELAY == 2
RATE_LIMIT_DELAY == 1
Scale == 100 * 100    \* fixed-point scale of coordinates
NoExit == 0 - 1       \* exitCode of a process that has not exited

----------------------------------------------------------------------------
(* Python str: code-point order and the case and whitespace conversions *)

Range(s) == { s[i] : i \in DOMAIN s }

UpperChars ==
  <<"A","B","C","D","E","F","G","H","I","J","K","L","M",
    "N","O","P","Q","R","S","T","U","V","W","X","Y","Z">>
LowerChars ==
  <<"a","b","c","d","e","f","g","h","i","j","k","l","m",
    "n","o","p","q","r","s","t","u","v","w","x","y","z">>
\* the characters of the model in code-point order
CodeOrder ==
  <<" ", ",", "-">> \o UpperChars \o LowerChars \o <<"á", "ã", "ü">>

Whitespace == {" "}

IndexOf(seq, c) == CHOOSE i \in DOMAIN seq : seq[i] = c
OrdTable == [c \in Range(CodeOrder) |-> IndexOf(CodeOrder, c)]
Ord(c) == OrdTable[c]

UpperSet == Range(UpperChars)
LowerSet == Range(LowerChars)
IsUpper(c) == c \in UpperSet
IsLower(c) == c \in LowerSet \cup {"á", "ã", "ü"}
IsCased(c) == IsUpper(c) \/ IsLower(c)
\* ASCII letters only: no accented letter occurs in a converted string
LowerTable ==
  [c \in Range(CodeOrder) |->
     IF c \in UpperSet THEN LowerChars[IndexOf(UpperChars, c)] ELSE c]
UpperTable ==
  [c \in Range(CodeOrder) |->
     IF c \in LowerSet THEN UpperChars[IndexOf(LowerChars, c)] ELSE c]
lower_char(c) == LowerTable[c]
upper_char(c) == UpperTable[c]

py_lower(s) == [i \in 1..Len(s) |-> lower_char(s[i])]
py_upper(s) == [i \in 1..Len(s) |-> upper_char(s[i])]
\* str.title(): a cased character is upper-cased after an uncased one (or at
\* the start) and lower-cased after a cased one
py_title(s) ==
  [i \in 1..Len(s) |->
     IF i = 1 \/ ~IsCased(s[i-1]) THEN upper_char(s[i]) ELSE lower_char(s[i])]

RECURSIVE lstrip(_)
lstrip(s) ==
  IF s # <<>> /\ Head(s) \in Whitespace THEN lstrip(Tail(s)) ELSE s
RECURSIVE rstrip(_)
rstrip(s) ==
  IF s # <<>> /\ s[Len(s)] \in Whitespace
    THEN rstrip(SubSeq(s, 1, Len(s) - 1)) ELSE s
py_strip(s) == rstrip(lstrip(s))

\* a < b in Python's str order: lexicographic by code point
RECURSIVE StrLess(_, _)
StrLess(a, b) ==
  IF b = <<>> THEN FALSE
  ELSE IF a = <<>> THEN TRUE
  ELSE IF Head(a) = Head(b) THEN StrLess(Tail(a), Tail(b))
  ELSE Ord(Head(a)) < Ord(Head(b))
StrLeq(a, b) == a = b \/ StrLess(a, b)

----------------------------------------------------------------------------
(* String literals of the program *)

S_Africa == <<"A","f","r","i","c","a">>
S_Americas == <<"A","m","e","r","i","c","a","s">>
S_Asia == <<"A","s","i","a">>
S_Europe == <<"E","u","r","o","p","e">>
S_Oceania == <<"O","c","e","a","n","i","a">>
S_NorthAmerica == <<"N","o","r","t","h"," ","A","m","e","r","i","c","a">>
S_SouthAmerica == <<"S","o","u","t","h"," ","A","m","e","r","i","c","a">>
S_Unknown == <<"U","n","k","n","o","w","n">>
S_NorthernAmerica ==
  <<"N","o","r","t","h","e","r","n"," ","A","m","e","r","i","c","a">>
S_CentralAmerica ==
  <<"C","e","n","t","r","a","l"," ","A","m","e","r","i","c","a">>
S_Caribbean == <<"C","a","r","i","b","b","e","a","n">>
S_country == <<"c","o","u","n","t","r","y">>
S_region == <<"r","e","g","i","o","n">>
S_japan == <<"j","a","p","a","n">>
S_united_states == <<"u","n","i","t","e","d"," ","s","t","a","t","e","s">>
S_canada == <<"c","a","n","a","d","a">>
S_australia == <<"a","u","s","t","r","a","l","i","a">>
S_brazil == <<"b","r","a","z","i","l">>
S_germany == <<"g","e","r","m","a","n","y">>
S_comma_space == <<",", " ">>

Continents ==
  { S_Africa, S_NorthAmerica, S_SouthAmerica, S_Asia, S_Europe, S_Oceania,
    S_Unknown }

----------------------------------------------------------------------------
(* calculate_radius *)

\* floor(sqrt(q)) by bisection: lo * lo <= q < hi * hi
RECURSIVE SqrtBetween(_, _, _)
SqrtBetween(lo, hi, q) ==
  IF hi - lo <= 1 THEN lo
  ELSE LET mid == (lo + hi) \div 2
       IN IF mid * mid <= q THEN SqrtBetween(mid, hi, q)
          ELSE SqrtBetween(lo, mid, q)
ISqrt(q) == SqrtBetween(0, 4000, q)

\* floor of radius_km = math.sqrt(area_km2 / math.pi), pi taken as 355/113
\* (the bucket of every whole area below 4,000,000 km2 matches the float
\* computation); comparing the floor with a whole threshold T decides
\* radius_km < T exactly
radius_km_of(area_km2) == ISqrt((area_km2 * 113) \div 355)

\* a variant whose buckets include their upper boundary
radius_bucket_inclusive(radius_km) ==
  IF radius_km <= 50 THEN 2
  ELSE IF radius_km <= 200 THEN 4
  ELSE IF radius_km <= 500 THEN 8
  ELSE IF radius_km <= 1000 THEN 12
  ELSE 20

radius_bucket(radius_km) ==
  IF radius_km < 50 THEN 2
  ELSE IF radius_km < 200 THEN 4
  ELSE IF radius_km < 500 THEN 8
  ELSE IF radius_km < 1000 THEN 12
  ELSE 20

\* area is [some |-> FALSE] for None
calculate_radius(area) ==
  IF ~area.some \/ area.v = 0 \/ area.v <= 0 THEN 2
  ELSE radius_bucket(radius_km_of(area.v))

----------------------------------------------------------------------------
(* Decoded JSON values: a string, a number, null, or an absent key *)

JStr(s) == [t |-> "str", s |-> s, n |-> 0]
JNum(n) == [t |-> "num", s |-> <<>>, n |-> n]
\* a string that holds a number, as GeoNames sends coordinates
JNumStr(n) == [t |-> "numstr", s |-> <<>>, n |-> n]
JNull == [t |-> "null", s |-> <<>>, n |-> 0]
JMissing == [t |-> "missing", s |-> <<>>, n |-> 0]

Opt(v) == [some |-> TRUE, v |-> v]
None == [some |-> FALSE, v |-> 0]
NoneStr == [some |-> FALSE, v |-> <<>>]

----------------------------------------------------------------------------
(* Country normalisation *)

get_continent_name(region, subregion) ==
  IF region = <<>> THEN S_Unknown
  ELSE IF region = S_Africa THEN S_Africa
  ELSE IF region = S_Americas THEN
    IF subregion \in {S_NorthernAmerica, S_CentralAmerica, S_Caribbean}
      THEN S_NorthAmerica ELSE S_SouthAmerica
  ELSE IF region = S_Asia THEN S_Asia
  ELSE IF region = S_Europe THEN S_Europe
  ELSE IF region = S_Oceania THEN S_Oceania
  ELSE S_Unknown

\* a variant that accepts every pair
validate_coordinates_any(lat, lng) == lat = lat /\ lng = lng

validate_coordinates(lat, lng) ==
  /\ 0 - 90 * Scale <= lat /\ lat <= 90 * Scale
  /\ 0 - 180 * Scale <= lng /\ lng <= 180 * Scale

validate_country_structure(country) == country.is_dict

\* [kind |-> "ok", v |-> name or <<>> for None] or [kind |-> "raise"]:
\* .strip() of a value that is no str raises AttributeError
extract_country_name(country) ==
  IF ~country.name_is_dict THEN [kind |-> "ok", v |-> <<>>]
  ELSE IF country.common.t = "missing" THEN [kind |-> "ok", v |-> <<>>]
  ELSE IF country.common.t # "str" THEN [kind |-> "raise", v |-> <<>>]
  ELSE [kind |-> "ok", v |-> py_strip(country.common.s)]

\* float(x) succeeds on a number and on a numeric string
IsFloatable(j) == j.t \in {"num", "numstr"}

NoCoordinates == [some |-> FALSE, lat |-> 0, lng |-> 0]
extract_coordinates(country) ==
  IF ~country.latlng_is_list \/ Len(country.latlng) # 2 THEN NoCoordinates
  ELSE IF ~IsFloatable(country.latlng[1]) \/ ~IsFloatable(country.latlng[2])
    THEN NoCoordinates
  ELSE IF validate_coordinates(country.latlng[1].n, country.latlng[2].n)
    THEN [some |-> TRUE, lat |-> country.latlng[1].n,
          lng |-> country.latlng[2].n]
  ELSE NoCoordinates

extract_area(country) ==
  IF country.area.t \in {"missing", "null"} THEN 0
  ELSE IF IsFloatable(country.area)
    THEN (IF country.area.n > 0 THEN country.area.n ELSE 0)
  ELSE 0

major_countries ==
  { <<"U","n","i","t","e","d"," ","S","t","a","t","e","s">>,  \* United States
    <<"C","a","n","a","d","a">>,  \* Canada
    <<"M","e","x","i","c","o">>,  \* Mexico
    <<"B","r","a","z","i","l">>,  \* Brazil
    <<"A","r","g","e","n","t","i","n","a">>,  \* Argentina
    <<"C","h","i","l","e">>,  \* Chile
    <<"U","n","i","t","e","d"," ","K","i","n","g","d","o","m">>,  \* United Kingdom
    <<"F","r","a","n","c","e">>,  \* France
    <<"G","e","r","m","a","n","y">>,  \* Germany
    <<"I","t","a","l","y">>,  \* Italy
    <<"S","p","a","i","n">>,  \* Spain
    <<"R","u","s","s","i","a">>,  \* Russia
    <<"C","h","i","n","a">>,  \* China
    <<"J","a","p","a","n">>,  \* Japan
    <<"I","n","d","i","a">>,  \* India
    <<"A","u","s","t","r","a","l","i","a">>,  \* Australia
    <<"S","o","u","t","h"," ","K","o","r","e","a">>,  \* South Korea
    <<"T","h","a","i","l","a","n","d">>,  \* Thailand
    <<"E","g","y","p","t">>,  \* Egypt
    <<"S","o","u","t","h"," ","A","f","r","i","c","a">>,  \* South Africa
    <<"N","i","g","e","r","i","a">>,  \* Nigeria
    <<"M","o","r","o","c","c","o">>,  \* Morocco
    <<"K","e","n","y","a">>,  \* Kenya
    <<"G","h","a","n","a">> }  \* Ghana

well_known_african ==
  { <<"E","g","y","p","t">>,  \* Egypt
    <<"S","o","u","t","h"," ","A","f","r","i","c","a">>,  \* South Africa
    <<"N","i","g","e","r","i","a">>,  \* Nigeria
    <<"M","o","r","o","c","c","o">>,  \* Morocco
    <<"K","e","n","y","a">>,  \* Kenya
    <<"G","h","a","n","a">>,  \* Ghana
    <<"E","t","h","i","o","p","i","a">>,  \* Ethiopia
    <<"T","a","n","z","a","n","i","a">>,  \* Tanzania
    <<"A","l","g","e","r","i","a">>,  \* Algeria
    <<"L","i","b","y","a">>,  \* Libya
    <<"T","u","n","i","s","i","a">>,  \* Tunisia
    <<"Z","i","m","b","a","b","w","e">>,  \* Zimbabwe
    <<"B","o","t","s","w","a","n","a">>,  \* Botswana
    <<"N","a","m","i","b","i","a">>,  \* Namibia
    <<"U","g","a","n","d","a">>,  \* Uganda
    <<"R","w","a","n","d","a">>,  \* Rwanda
    <<"S","e","n","e","g","a","l">>,  \* Senegal
    <<"M","a","l","i">> }  \* Mali

well_known_small ==
  { <<"S","i","n","g","a","p","o","r","e">>,  \* Singapore
    <<"S","w","i","t","z","e","r","l","a","n","d">>,  \* Switzerland
    <<"N","e","t","h","e","r","l","a","n","d","s">>,  \* Netherlands
    <<"B","e","l","g","i","u","m">>,  \* Belgium
    <<"D","e","n","m","a","r","k">>,  \* Denmark
    <<"N","o","r","w","a","y">>,  \* Norway
    <<"S","w","e","d","e","n">>,  \* Sweden
    <<"F","i","n","l","a","n","d">>,  \* Finland
    <<"I","r","e","l","a","n","d">>,  \* Ireland
    <<"P","o","r","t","u","g","a","l">>,  \* Portugal
    <<"A","u","s","t","r","i","a">>,  \* Austria
    <<"I","s","r","a","e","l">>,  \* Israel
    <<"L","e","b","a","n","o","n">>,  \* Lebanon
    <<"J","o","r","d","a","n">>,  \* Jordan
    <<"K","u","w","a","i","t">>,  \* Kuwait
    <<"Q","a","t","a","r">>,  \* Qatar
    <<"U","A","E">>,  \* UAE
    <<"N","e","w"," ","Z","e","a","l","a","n","d">>,  \* New Zealand
    <<"F","i","j","i">>,  \* Fiji
    <<"J","a","m","a","i","c","a">>,  \* Jamaica
    <<"C","o","s","t","a"," ","R","i","c","a">>,  \* Costa Rica
    <<"P","a","n","a","m","a">> }  \* Panama

\* a variant whose size rule starts at 100 km2
is_well_known_country_over_100(name, continent, area) ==
  IF name = <<>> THEN FALSE
  ELSE IF name \in major_countries THEN TRUE
  ELSE IF continent = S_Africa THEN name \in well_known_african
  ELSE IF area # 0 /\ area > 100 THEN TRUE
  ELSE name \in well_known_small

\* a variant in which the size rule applies to Africa too
is_well_known_country_by_area(name, continent, area) ==
  IF name = <<>> THEN FALSE
  ELSE IF name \in major_countries THEN TRUE
  ELSE IF area # 0 /\ area > 10000 THEN TRUE
  ELSE IF continent = S_Africa THEN name \in well_known_african
  ELSE name \in well_known_small

is_well_known_country(name, continent, area) ==
  IF name = <<>> THEN FALSE
  ELSE IF name \in major_countries THEN TRUE
  ELSE IF continent = S_Africa THEN name \in well_known_african
  ELSE IF area # 0 /\ area > 10000 THEN TRUE
  ELSE name \in well_known_small

\* country.get(key, '').strip(): '' when absent, AttributeError when no str
StrField(j) ==
  IF j.t = "missing" THEN [kind |-> "ok", v |-> <<>>]
  ELSE IF j.t = "str" THEN [kind |-> "ok", v |-> py_strip(j.s)]
  ELSE [kind |-> "raise", v |-> <<>>]

NoCountry ==
  [name |-> <<>>, lat |-> 0, lng |-> 0, area |-> 0, continent |-> <<>>,
   radius |-> 0, country_code |-> <<>>]

\* [kind |-> "ok", v |-> dict], [kind |-> "none"] or [kind |-> "raise"]
process_single_country(country) ==
  IF ~validate_country_structure(country)
    THEN [kind |-> "none", v |-> NoCountry]
  ELSE
  LET name == extract_country_name(country) IN
  IF name.kind = "raise" THEN [kind |-> "raise", v |-> NoCountry]
  ELSE IF name.v = <<>> THEN [kind |-> "none", v |-> NoCountry]
  ELSE
  LET coordinates == extract_coordinates(country) IN
  IF ~coordinates.some THEN [kind |-> "none", v |-> NoCountry]
  ELSE
  LET area == extract_area(country)
      region == StrField(country.region)
      subregion == StrField(country.subregion)
      country_code == StrField(country.cca2)
  IN
  IF region.kind = "raise" \/ subregion.kind = "raise"
     \/ country_code.kind = "raise"
    THEN [kind |-> "raise", v |-> NoCountry]
  ELSE
  LET continent == get_continent_name(region.v, subregion.v)
      radius == calculate_radius(Opt(area))
  IN
  IF ~is_well_known_country(name.v, continent, area)
    THEN [kind |-> "none", v |-> NoCountry]
  ELSE [kind |-> "ok",
        v |-> [name |-> name.v, lat |-> coordinates.lat,
               lng |-> coordinates.lng, area |-> area,
               continent |-> continent, radius |-> radius,
               country_code |-> country_code.v]]

\* the loop of process_country_data over countries_data[i..]
RECURSIVE process_from(_, _, _)
process_from(countries_data, i, acc) ==
  IF i > Len(countries_data) THEN acc
  ELSE
  LET country == countries_data[i]
      processed_country == process_single_country(country)
  IN
  IF processed_country.kind = "ok" THEN
    process_from(countries_data, i + 1,
      [acc EXCEPT !.processed_countries = Append(@, processed_country.v)])
  ELSE IF processed_country.kind = "raise" THEN
    process_from(countries_data, i + 1,
      [acc EXCEPT !.skipped_count = @ + 1])
  ELSE
  LET name == IF validate_country_structure(country)
                THEN extract_country_name(country).v ELSE <<>>
  IN
  IF name # <<>> /\ extract_coordinates(country).some THEN
    process_from(countries_data, i + 1,
      [acc EXCEPT !.filtered_count = @ + 1])
  ELSE
    process_from(countries_data, i + 1,
      [acc EXCEPT !.skipped_count = @ + 1])

\* a variant without the try block around one record: the first record
\* whose processing raises ends the function
process_country_data_abort(countries_data) ==
  IF countries_data = <<>>
     \/ \E i \in DOMAIN countries_data :
          process_single_country(countries_data[i]).kind = "raise"
  THEN
    [kind |-> "raise", processed_countries |-> <<>>, skipped_count |-> 0,
     filtered_count |-> 0]
  ELSE
  LET r == process_from(countries_data, 1,
             [kind |-> "ok", processed_countries |-> <<>>,
              skipped_count |-> 0, filtered_count |-> 0])
  IN IF r.processed_countries = <<>> THEN [r EXCEPT !.kind = "raise"] ELSE r

\* kind "raise" is the ValueError of an empty input or an empty result
process_country_data(countries_data) ==
  IF countries_data = <<>> THEN
    [kind |-> "raise", processed_countries |-> <<>>, skipped_count |-> 0,
     filtered_count |-> 0]
  ELSE
  LET r == process_from(countries_data, 1,
             [kind |-> "ok", processed_countries |-> <<>>,
              skipped_count |-> 0, filtered_count |-> 0])
  IN IF r.processed_countries = <<>> THEN [r EXCEPT !.kind = "raise"] ELSE r

----------------------------------------------------------------------------
(* The fallback table of get_fallback_regions *)

\* fallback_data['japan'] (15 entries)
Fallback_Japan ==
  << [name |-> <<"T","o","k","y","o">>, \* Tokyo
       lat |-> 356762, lng |-> 1396503],
     [name |-> <<"O","s","a","k","a">>, \* Osaka
       lat |-> 346937, lng |-> 1355023],
     [name |-> <<"K","y","o","t","o">>, \* Kyoto
       lat |-> 350116, lng |-> 1357681],
     [name |-> <<"H","o","k","k","a","i","d","o">>, \* Hokkaido
       lat |-> 430642, lng |-> 1413469],
     [name |-> <<"F","u","k","u","o","k","a">>, \* Fukuoka
       lat |-> 335904, lng |-> 1304017],
     [name |-> <<"H","i","r","o","s","h","i","m","a">>, \* Hiroshima
       lat |-> 343853, lng |-> 1324553],
     [name |-> <<"S","e","n","d","a","i">>, \* Sendai
       lat |-> 382682, lng |-> 1408694],
     [name |-> <<"N","a","g","o","y","a">>, \* Nagoya
       lat |-> 351815, lng |-> 1369066],
     [name |-> <<"S","a","p","p","o","r","o">>, \* Sapporo
       lat |-> 430642, lng |-> 1413469],
     [name |-> <<"K","o","b","e">>, \* Kobe
       lat |-> 346901, lng |-> 1351956],
     [name |-> <<"Y","o","k","o","h","a","m","a">>, \* Yokohama
       lat |-> 354437, lng |-> 1396380],
     [name |-> <<"K","a","w","a","s","a","k","i">>, \* Kawasaki
       lat |-> 355206, lng |-> 1397172],
     [name |-> <<"C","h","i","b","a">>, \* Chiba
       lat |-> 356074, lng |-> 1401065],
     [name |-> <<"N","a","r","a">>, \* Nara
       lat |-> 346851, lng |-> 1358048],
     [name |-> <<"O","k","i","n","a","w","a">>, \* Okinawa
       lat |-> 262124, lng |-> 1276792] >>

\* fallback_data['united states'] (15 entries)
Fallback_UnitedStates ==
  << [name |-> <<"C","a","l","i","f","o","r","n","i","a">>, \* California
       lat |-> 367783, lng |-> -1194179],
     [name |-> <<"T","e","x","a","s">>, \* Texas
       lat |-> 319686, lng |-> -999018],
     [name |-> <<"F","l","o","r","i","d","a">>, \* Florida
       lat |-> 277663, lng |-> -826404],
     [name |-> <<"N","e","w"," ","Y","o","r","k">>, \* New York
       lat |-> 421657, lng |-> -749481],
     [name |-> <<"P","e","n","n","s","y","l","v","a","n","i","a">>, \* Pennsylvania
       lat |-> 412033, lng |-> -771945],
     [name |-> <<"I","l","l","i","n","o","i","s">>, \* Illinois
       lat |-> 403363, lng |-> -890022],
     [name |-> <<"O","h","i","o">>, \* Ohio
       lat |-> 403888, lng |-> -827649],
     [name |-> <<"G","e","o","r","g","i","a">>, \* Georgia
       lat |-> 330406, lng |-> -836431],
     [name |-> <<"N","o","r","t","h"," ","C","a","r","o","l","i","n","a">>, \* North Carolina
       lat |-> 356301, lng |-> -798064],
     [name |-> <<"M","i","c","h","i","g","a","n">>, \* Michigan
       lat |-> 433266, lng |-> -845361],
     [name |-> <<"V","i","r","g","i","n","i","a">>, \* Virginia
       lat |-> 374316, lng |-> -786569],
     [name |-> <<"W","a","s","h","i","n","g","t","o","n">>, \* Washington
       lat |-> 477511, lng |-> -1207401],
     [name |-> <<"A","r","i","z","o","n","a">>, \* Arizona
       lat |-> 340489, lng |-> -1110937],
     [name |-> <<"M","a","s","s","a","c","h","u","s","e","t","t","s">>, \* Massachusetts
       lat |-> 424072, lng |-> -713824],
     [name |-> <<"C","o","l","o","r","a","d","o">>, \* Colorado
       lat |-> 395501, lng |-> -1057821] >>

\* fallback_data['canada'] (10 entries)
Fallback_Canada ==
  << [name |-> <<"O","n","t","a","r","i","o">>, \* Ontario
       lat |-> 512538, lng |-> -853232],
     [name |-> <<"Q","u","e","b","e","c">>, \* Quebec
       lat |-> 539333, lng |-> -738667],
     [name |-> <<"B","r","i","t","i","s","h"," ","C","o","l","u","m","b","i","a">>, \* British Columbia
       lat |-> 537267, lng |-> -1276476],
     [name |-> <<"A","l","b","e","r","t","a">>, \* Alberta
       lat |-> 539333, lng |-> -1165765],
     [name |-> <<"M","a","n","i","t","o","b","a">>, \* Manitoba
       lat |-> 537609, lng |-> -988139],
     [name |-> <<"S","a","s","k","a","t","c","h","e","w","a","n">>, \* Saskatchewan
       lat |-> 529399, lng |-> -1064509],
     [name |-> <<"N","o","v","a"," ","S","c","o","t","i","a">>, \* Nova Scotia
       lat |-> 446820, lng |-> -637443],
     [name |-> <<"N","e","w"," ","B","r","u","n","s","w","i","c","k">>, \* New Brunswick
       lat |-> 465653, lng |-> -664619],
     [name |-> <<"N","e","w","f","o","u","n","d","l","a","n","d"," ","a","n","d"," ","L","a","b","r","a","d","o","r">>, \* Newfoundland and Labrador
       lat |-> 531355, lng |-> -576604],
     [name |-> <<"P","r","i","n","c","e"," ","E","d","w","a","r","d"," ","I","s","l","a","n","d">>, \* Prince Edward Island
       lat |-> 465107, lng |-> -634168] >>

\* fallback_data['australia'] (8 entries)
Fallback_Australia ==
  << [name |-> <<"N","e","w"," ","S","o","u","t","h"," ","W","a","l","e","s">>, \* New South Wales
       lat |-> -312532, lng |-> 1469211],
     [name |-> <<"V","i","c","t","o","r","i","a">>, \* Victoria
       lat |-> -368485, lng |-> 1449631],
     [name |-> <<"Q","u","e","e","n","s","l","a","n","d">>, \* Queensland
       lat |-> -209176, lng |-> 1427028],
     [name |-> <<"W","e","s","t","e","r","n"," ","A","u","s","t","r","a","l","i","a">>, \* Western Australia
       lat |-> -250424, lng |-> 1216417],
     [name |-> <<"S","o","u","t","h"," ","A","u","s","t","r","a","l","i","a">>, \* South Australia
       lat |-> -300002, lng |-> 1362092],
     [name |-> <<"T","a","s","m","a","n","i","a">>, \* Tasmania
       lat |-> -414545, lng |-> 1459707],
     [name |-> <<"N","o","r","t","h","e","r","n"," ","T","e","r","r","i","t","o","r","y">>, \* Northern Territory
       lat |-> -194914, lng |-> 1325510],
     [name |-> <<"A","u","s","t","r","a","l","i","a","n"," ","C","a","p","i","t","a","l"," ","T","e","r","r","i","t","o","r","y">>, \* Australian Capital Territory
       lat |-> -354735, lng |-> 1490124] >>

\* fallback_data['brazil'] (8 entries)
Fallback_Brazil ==
  << [name |-> <<"S","ã","o"," ","P","a","u","l","o">>, \* São Paulo
       lat |-> -235505, lng |-> -466333],
     [name |-> <<"R","i","o"," ","d","e"," ","J","a","n","e","i","r","o">>, \* Rio de Janeiro
       lat |-> -229068, lng |-> -431729],
     [name |-> <<"M","i","n","a","s"," ","G","e","r","a","i","s">>, \* Minas Gerais
       lat |-> -185122, lng |-> -445550],
     [name |-> <<"B","a","h","i","a">>, \* Bahia
       lat |-> -125797, lng |-> -417007],
     [name |-> <<"P","a","r","a","n","á">>, \* Paraná
       lat |-> -248932, lng |-> -514934],
     [name |-> <<"R","i","o"," ","G","r","a","n","d","e"," ","d","o"," ","S","u","l">>, \* Rio Grande do Sul
       lat |-> -300346, lng |-> -512177],
     [name |-> <<"P","e","r","n","a","m","b","u","c","o">>, \* Pernambuco
       lat |-> -88137, lng |-> -369541],
     [name |-> <<"C","e","a","r","á">>, \* Ceará
       lat |-> -54984, lng |-> -393206] >>

\* fallback_data['germany'] (8 entries)
Fallback_Germany ==
  << [name |-> <<"B","a","v","a","r","i","a">>, \* Bavaria
       lat |-> 490134, lng |-> 109576],
     [name |-> <<"N","o","r","t","h"," ","R","h","i","n","e","-","W","e","s","t","p","h","a","l","i","a">>, \* North Rhine-Westphalia
       lat |-> 514332, lng |-> 76616],
     [name |-> <<"B","a","d","e","n","-","W","ü","r","t","t","e","m","b","e","r","g">>, \* Baden-Württemberg
       lat |-> 486616, lng |-> 93501],
     [name |-> <<"L","o","w","e","r"," ","S","a","x","o","n","y">>, \* Lower Saxony
       lat |-> 526367, lng |-> 98451],
     [name |-> <<"H","e","s","s","e">>, \* Hesse
       lat |-> 506520, lng |-> 91624],
     [name |-> <<"S","a","x","o","n","y">>, \* Saxony
       lat |-> 511045, lng |-> 132017],
     [name |-> <<"R","h","i","n","e","l","a","n","d","-","P","a","l","a","t","i","n","a","t","e">>, \* Rhineland-Palatinate
       lat |-> 499129, lng |-> 74530],
     [name |-> <<"T","h","u","r","i","n","g","i","a">>, \* Thuringia
       lat |-> 509848, lng |-> 110299] >>

fallback_data ==
  (S_japan :> Fallback_Japan) @@ (S_united_states :> Fallback_UnitedStates)
  @@ (S_canada :> Fallback_Canada) @@ (S_australia :> Fallback_Australia)
  @@ (S_brazil :> Fallback_Brazil) @@ (S_germany :> Fallback_Germany)

continent_fallbacks ==
  (S_japan :> S_Asia) @@ (S_united_states :> S_NorthAmerica)
  @@ (S_canada :> S_NorthAmerica) @@ (S_australia :> S_Oceania)
  @@ (S_brazil :> S_SouthAmerica) @@ (S_germany :> S_Europe)

----------------------------------------------------------------------------
(* Subdivisions: continent, fallback, filter, rank, convert *)

Min(a, b) == IF a < b THEN a ELSE b
\* seq[:n]
Slice(seq, n) == SubSeq(seq, 1, Min(n, Len(seq)))

\* the loop of get_continent_for_country over countries_data[i..]:
\* [kind |-> "ok", v |-> continent], or [kind |-> "raise"] when a record's
\* common name or the matching record's region is no str
RECURSIVE continent_from(_, _, _)
continent_from(country_name_lower, countries_data, i) ==
  IF i > Len(countries_data) THEN
    [kind |-> "ok",
     v |-> IF country_name_lower \in DOMAIN continent_fallbacks
             THEN continent_fallbacks[country_name_lower] ELSE S_Unknown]
  ELSE
  LET country == countries_data[i] IN
  IF ~country.is_dict \/ ~country.name_is_dict
    THEN continent_from(country_name_lower, countries_data, i + 1)
  ELSE IF country.common.t \notin {"str", "missing"}
    THEN [kind |-> "raise", v |-> <<>>]
  ELSE
  LET country_common_name ==
        IF country.common.t = "missing" THEN <<>>
        ELSE py_strip(py_lower(country.common.s))
  IN
  IF country_common_name = country_name_lower THEN
    LET region == StrField(country.region)
        subregion == StrField(country.subregion)
    IN IF region.kind = "raise" \/ subregion.kind = "raise"
         THEN [kind |-> "raise", v |-> <<>>]
         ELSE [kind |-> "ok", v |-> get_continent_name(region.v, subregion.v)]
  ELSE continent_from(country_name_lower, countries_data, i + 1)

get_continent_for_country(country_name, countries_data) ==
  IF country_name = <<>> THEN [kind |-> "ok", v |-> S_Unknown]
  ELSE continent_from(py_strip(py_lower(country_name)), countries_data, 1)

Region(lat, lng, radius, name, continent, type) ==
  [lat |-> lat, lng |-> lng, radius |-> radius, name |-> name,
   continent |-> continent, type |-> type]

\* the loop of get_fallback_regions over regions_data[i..]
RECURSIVE fallback_from(_, _, _, _)
fallback_from(regions_data, i, country_name, continent) ==
  IF i > Len(regions_data) THEN <<>>
  ELSE
  LET region == regions_data[i]
      rest == fallback_from(regions_data, i + 1, country_name, continent)
  IN
  IF ~validate_coordinates(region.lat, region.lng) THEN rest
  ELSE <<Region(region.lat, region.lng, 3,
                region.name \o S_comma_space \o py_title(country_name),
                continent, S_region)>> \o rest

\* a variant without the [:limit] slice
get_fallback_regions_unlimited(country_name, limit) ==
  IF country_name = <<>> \/ limit <= 0 THEN <<>>
  ELSE
  LET country_key == py_strip(py_lower(country_name)) IN
  IF country_key \in DOMAIN fallback_data THEN
    fallback_from(fallback_data[country_key], 1, country_name,
                  get_continent_for_country(country_name, <<>>).v)
  ELSE <<>>

get_fallback_regions(country_name, limit) ==
  IF country_name = <<>> \/ limit <= 0 THEN <<>>
  ELSE
  LET country_key == py_strip(py_lower(country_name)) IN
  IF country_key \in DOMAIN fallback_data THEN
    fallback_from(Slice(fallback_data[country_key], limit), 1, country_name,
                  get_continent_for_country(country_name, <<>>).v)
  ELSE <<>>

F_ADM1 == <<"A","D","M","1">>
F_ADM2 == <<"A","D","M","2">>
F_PPLA == <<"P","P","L","A">>
F_PPLC == <<"P","P","L","C">>
F_PPLA2 == <<"P","P","L","A","2">>
F_PPL == <<"P","P","L">>
valid_codes == {F_ADM1, F_ADM2, F_PPLA, F_PPLC, F_PPLA2, F_PPL}

\* the loop of filter_administrative_divisions over geonames[i..]:
\* [kind |-> "ok", v |-> admin_divisions], or [kind |-> "raise"] when a
\* place's name is no str
RECURSIVE filter_from(_, _)
filter_from(geonames, i) ==
  IF i > Len(geonames) THEN [kind |-> "ok", v |-> <<>>]
  ELSE
  LET place == geonames[i] IN
  IF ~place.is_dict THEN filter_from(geonames, i + 1)
  ELSE
  LET feature_code == IF place.fcode.t = "missing" THEN <<>> ELSE place.fcode.s
      name == StrField(place.name)
  IN
  IF name.kind = "raise" THEN [kind |-> "raise", v |-> <<>>]
  ELSE
  LET rest == filter_from(geonames, i + 1) IN
  IF rest.kind = "raise" THEN rest
  ELSE IF ~(/\ place.fcode.t \in {"str", "missing"}
            /\ feature_code \in valid_codes
            /\ name.v # <<>>
            /\ place.lat.t \notin {"missing", "null"}
            /\ place.lng.t \notin {"missing", "null"}) THEN rest
  ELSE IF ~IsFloatable(place.lat) \/ ~IsFloatable(place.lng) THEN rest
  ELSE IF ~validate_coordinates(place.lat.n, place.lng.n) THEN rest
  ELSE [kind |-> "ok",
        v |-> <<[name |-> name.v, lat |-> place.lat.n, lng |-> place.lng.n,
                 feature_code |-> feature_code]>> \o rest.v]

filter_administrative_divisions(geonames) == filter_from(geonames, 1)

\* a variant that ranks the capitals before the first-order divisions
priority_order_cities_first(feature_code) ==
  IF feature_code \in {F_PPLA, F_PPLC} THEN 1
  ELSE IF feature_code = F_ADM1 THEN 2
  ELSE IF feature_code = F_ADM2 THEN 3
  ELSE IF feature_code = F_PPLA2 THEN 4
  ELSE IF feature_code = F_PPL THEN 5
  ELSE 6

priority_order(feature_code) ==
  IF feature_code = F_ADM1 THEN 1
  ELSE IF feature_code \in {F_PPLA, F_PPLC} THEN 2
  ELSE IF feature_code = F_ADM2 THEN 3
  ELSE IF feature_code = F_PPLA2 THEN 4
  ELSE IF feature_code = F_PPL THEN 5
  ELSE 6

\* key(x) < key(y) for the key (priority, name) of the sort of line 571
DivisionLess(x, y) ==
  \/ priority_order(x.feature_code) < priority_order(y.feature_code)
  \/ /\ priority_order(x.feature_code) = priority_order(y.feature_code)
     /\ StrLess(x.name, y.name)

\* list.sort is stable: x goes after every element whose key is not greater
RECURSIVE InsertBy(_, _, _)
InsertBy(Less(_, _), x, sorted) ==
  IF sorted = <<>> THEN <<x>>
  ELSE IF Less(x, Head(sorted)) THEN <<x>> \o sorted
  ELSE <<Head(sorted)>> \o InsertBy(Less, x, Tail(sorted))
RECURSIVE SortBy(_, _)
SortBy(Less(_, _), seq) ==
  IF seq = <<>> THEN <<>>
  ELSE InsertBy(Less, seq[Len(seq)], SortBy(Less, SubSeq(seq, 1, Len(seq) - 1)))

convert_divisions_to_regions(divisions, country_name, countries_data) ==
  LET continent == get_continent_for_country(country_name, countries_data) IN
  IF continent.kind = "raise" THEN [kind |-> "raise", v |-> <<>>]
  ELSE [kind |-> "ok",
        v |-> [i \in 1..Len(divisions) |->
                 Region(divisions[i].lat, divisions[i].lng, 3,
                        divisions[i].name \o S_comma_space
                          \o py_title(country_name),
                        continent.v, S_region)]]

----------------------------------------------------------------------------
(* validate_region_data, the sort and the metadata of generate_regions *)

\* the loop of validate_region_data over regions[i..]; every entry the
\* pipeline builds is a dict with the required fields and numeric values
RECURSIVE validate_from(_, _)
validate_from(regions, i) ==
  IF i > Len(regions) THEN <<>>
  ELSE
  LET region == regions[i]
      name == py_strip(region.name)
      continent == py_strip(region.continent)
      region_type == py_strip(region.type)
      rest == validate_from(regions, i + 1)
  IN
  IF ~validate_coordinates(region.lat, region.lng) \/ name = <<>>
     \/ continent = <<>> \/ region_type = <<>> THEN rest
  ELSE <<Region(region.lat, region.lng,
                IF region.radius > 1 THEN region.radius ELSE 1,
                name, continent, region_type)>> \o rest

validate_region_data(regions) == validate_from(regions, 1)

\* a variant whose key is the name alone
RegionLess_by_name(x, y) == StrLess(x.name, y.name)

\* key(x) < key(y) for the key (continent, name) of the sort of line 700
RegionLess(x, y) ==
  \/ StrLess(x.continent, y.continent)
  \/ x.continent = y.continent /\ StrLess(x.name, y.name)

sort_regions(regions) == SortBy(RegionLess, regions)

CountWhere(seq, P(_)) == Cardinality({ i \in DOMAIN seq : P(seq[i]) })

NoMetadata ==
  [total_regions |-> 0, country_count |-> 0, state_count |-> 0,
   continents_coverage |-> <<>>, fallback_regions_used |-> FALSE]

\* generated_at and api_source are left out: no claim reads them
metadata_of(regions, prioritize_country) ==
  LET IsCountry(r) == r.type = S_country
      total_regions == Len(regions)
      countries_count == CountWhere(regions, IsCountry)
  IN [total_regions |-> total_regions,
      country_count |-> countries_count,
      state_count |-> total_regions - countries_count,
      continents_coverage |->
        [c \in { regions[i].continent : i \in DOMAIN regions } |->
           LET In(r) == r.continent = c IN CountWhere(regions, In)],
      fallback_regions_used |-> prioritize_country.some]

NoData ==
  [some |-> FALSE, regions |-> <<>>, has_metadata |-> FALSE,
   metadata |-> NoMetadata]

\* generate_regions from line 672 on, given the processed countries and the
\* states of the prioritized country: [kind |-> "ok", v |-> result] or
\* [kind |-> "raise"] (ValueError: no valid regions)
country_regions(processed_countries) ==
  [i \in 1..Len(processed_countries) |->
     Region(processed_countries[i].lat, processed_countries[i].lng,
            processed_countries[i].radius, processed_countries[i].name,
            processed_countries[i].continent, S_country)]

assemble_regions(regions, prioritize_country, include_metadata) ==
  LET valid == validate_region_data(regions) IN
  IF valid = <<>> THEN [kind |-> "raise", v |-> NoData]
  ELSE
  LET sorted == sort_regions(valid) IN
  [kind |-> "ok",
   v |-> [some |-> TRUE, regions |-> sorted,
          has_metadata |-> include_metadata,
          metadata |-> IF include_metadata
                         THEN metadata_of(sorted, prioritize_country)
                         ELSE NoMetadata]]

----------------------------------------------------------------------------
(* Inputs the runs draw from *)

SeqsUpTo(S, n) == UNION { [1..k -> S] : k \in 0..n }

S_Japan == <<"J","a","p","a","n">>
S_Canada == <<"C","a","n","a","d","a">>
S_Fiji_padded == <<" ","F","i","j","i"," ">>
S_Fiji == <<"F","i","j","i">>
S_Smallia == <<"S","m","a","l","l","i","a">>
S_Nolat == <<"N","o","l","a","t">>
S_India == <<"I","n","d","i","a">>
S_EasternAsia == <<"E","a","s","t","e","r","n"," ","A","s","i","a">>
S_Melanesia == <<"M","e","l","a","n","e","s","i","a">>
S_JP == <<"J","P">>
S_CA == <<"C","A">>
S_FJ == <<"F","J">>
S_SM == <<"S","M">>
S_NL == <<"N","L">>

RawCountry(common, latlng, area, region, subregion, cca2) ==
  [is_dict |-> TRUE, name_is_dict |-> TRUE, common |-> common,
   latlng_is_list |-> TRUE, latlng |-> latlng, area |-> area,
   region |-> region, subregion |-> subregion, cca2 |-> cca2]

RC_Japan ==
  RawCountry(JStr(S_Japan), <<JNum(36 * Scale), JNum(138 * Scale)>>,
             JNum(377930), JStr(S_Asia), JStr(S_EasternAsia), JStr(S_JP))
RC_Canada ==
  RawCountry(JStr(S_Canada), <<JNum(60 * Scale), JNum(0 - 95 * Scale)>>,
             JNum(9984670), JStr(S_Americas), JStr(S_NorthernAmerica),
             JStr(S_CA))
\* a notable small country, its name padded with blanks
RC_Fiji ==
  RawCountry(JStr(S_Fiji_padded), <<JNum(0 - 18 * Scale), JNum(175 * Scale)>>,
             JNum(18272), JStr(S_Oceania), JStr(S_Melanesia), JStr(S_FJ))
\* area 500, in no allow-list
RC_Smallia ==
  RawCountry(JStr(S_Smallia), <<JNum(0 - 8 * Scale), JNum(179 * Scale)>>,
             JNum(500), JStr(S_Oceania), JStr(S_Melanesia), JStr(S_SM))
\* no latlng key: country.get('latlng', []) is []
RC_NoLatLng ==
  RawCountry(JStr(S_Nolat), <<>>, JNum(41850), JStr(S_Europe), JMissing,
             JStr(S_NL))

\* a latitude out of range
RC_BadLat ==
  RawCountry(JStr(S_India), <<JNum(95 * Scale), JNum(77 * Scale)>>,
             JNum(3287590), JStr(S_Asia), JMissing, JMissing)

CountrySamples ==
  {RC_Japan, RC_Canada, RC_Fiji, RC_Smallia, RC_NoLatLng, RC_BadLat}

\* a decoded response body: json is "invalid" (response.json() raises),
\* "list", "dict" or "scalar"; items are the list's elements, or those of
\* data['geonames'] when the body is a dict and geonames_is_list
Body(json, geonames_is_list, items) ==
  [json |-> json, geonames_is_list |-> geonames_is_list, items |-> items]
NoBody == Body("none", FALSE, <<>>)
NoResponse == [some |-> FALSE, body |-> NoBody]
Response(some, body) == [some |-> some, body |-> body]

\* a major country, a small country in no allow-list, a record without
\* latlng
ThreeCountries == <<RC_Japan, RC_Smallia, RC_NoLatLng>>
CountryBodies ==
  { Body("list", FALSE, cs) : cs \in SeqsUpTo(CountrySamples, MaxCountries) }
  \cup { Body("list", FALSE, ThreeCountries) }
  \cup { Body("invalid", FALSE, <<>>), Body("dict", TRUE, <<>>) }

\* an element of the lookup's geonames list; geonameId 0 stands for an
\* absent or falsy identifier
SearchHit(is_dict, geonameId) == [is_dict |-> is_dict, geonameId |-> geonameId]
SearchBodies ==
  { Body("dict", TRUE, <<SearchHit(TRUE, 1861060)>>),
    Body("dict", TRUE, <<>>),
    Body("dict", TRUE, <<SearchHit(TRUE, 0)>>),
    Body("dict", TRUE, <<SearchHit(FALSE, 0)>>),
    Body("dict", FALSE, <<>>),
    Body("list", FALSE, <<>>),
    Body("invalid", FALSE, <<>>) }

S_Hokkaido == <<"H","o","k","k","a","i","d","o">>
S_Aichi_padded == <<" ","A","i","c","h","i">>
S_Tokyo == <<"T","o","k","y","o">>
S_Osaka == <<"O","s","a","k","a">>
S_Mura == <<"M","u","r","a">>
F_PPLX == <<"P","P","L","X">>

Place(fcode, name, lat, lng) ==
  [is_dict |-> TRUE, fcode |-> fcode, name |-> name, lat |-> lat, lng |-> lng]
P_Hokkaido ==
  Place(JStr(F_ADM1), JStr(S_Hokkaido), JNumStr(430642), JNumStr(1413469))
P_Aichi ==
  Place(JStr(F_ADM1), JStr(S_Aichi_padded), JNumStr(350000), JNumStr(1370000))
P_Tokyo ==
  Place(JStr(F_PPLC), JStr(S_Tokyo), JNumStr(356762), JNumStr(1396503))
P_Osaka ==
  Place(JStr(F_PPL), JStr(S_Osaka), JNum(346937), JNum(1355023))
\* a feature code outside valid_codes
P_Mura == Place(JStr(F_PPLX), JStr(S_Mura), JNumStr(350000), JNumStr(1380000))
\* latitude out of range
P_BadLat == Place(JStr(F_ADM1), JStr(S_Mura), JNumStr(950000), JNumStr(10000))
\* no lat key
P_NoLat == Place(JStr(F_ADM2), JStr(S_Mura), JMissing, JNumStr(1380000))
\* name is null: .strip() raises
P_NameNull == Place(JStr(F_ADM1), JNull, JNumStr(350000), JNumStr(1380000))
\* an element that is no object
P_NotDict ==
  [is_dict |-> FALSE, fcode |-> JMissing, name |-> JMissing,
   lat |-> JMissing, lng |-> JMissing]

PlaceSamples ==
  {P_Hokkaido, P_Aichi, P_Tokyo, P_Osaka, P_Mura, P_BadLat, P_NoLat,
   P_NameNull, P_NotDict}

\* the subdivisions responses a whole run of main draws from
MainChildrenBodies ==
  { Body("dict", TRUE, <<P_Tokyo, P_Hokkaido>>),
    Body("dict", TRUE, <<P_Mura, P_BadLat>>),
    Body("dict", TRUE, <<P_Hokkaido, P_NameNull>>),
    Body("list", FALSE, <<>>) }
\* those a call of get_country_states alone draws from
ChildrenBodies ==
  { Body("dict", TRUE, ps) : ps \in SeqsUpTo(PlaceSamples, MaxPlaces) }
  \cup { Body("dict", FALSE, <<>>), Body("list", FALSE, <<>>),
         Body("invalid", FALSE, <<>>) }

\* the bodies response.json() may give for a request to url
Bodies(url) ==
  IF url = "countries" THEN CountryBodies
  ELSE IF url = "search" THEN
    (IF entry = "main"
       THEN { b \in SearchBodies :
                /\ b.json = "dict" /\ b.geonames_is_list
                /\ (b.items = <<>> \/ b.items[1].geonameId # 0) }
       ELSE SearchBodies)
  ELSE IF entry = "main" THEN MainChildrenBodies ELSE ChildrenBodies

----------------------------------------------------------------------------
(* Initial values of the locals *)

NoRetry ==
  [url |-> "none", q |-> <<>>, attempt |-> 0, slept |-> <<>>, nreq |-> 0,
   max_retries |-> MAX_RETRIES]
NoGen ==
  [state_limit |-> 0, countries_data |-> <<>>, processed_count |-> 0,
   skipped_count |-> 0, filtered_count |-> 0, regions |-> <<>>,
   regions_data |-> NoData]
NoSub ==
  [country_name |-> <<>>, limit |-> 0, countries_data |-> <<>>,
   variant |-> 0, geoname_id |-> 0, geonames |-> <<>>, status |-> "idle",
   states |-> <<>>]
NoFile == <<>>
File(data) == <<[complete |-> TRUE, data |-> data]>>
Partial(data) == <<[complete |-> FALSE, data |-> data]>>
NoWr ==
  [data |-> NoData, temp_path |-> FALSE, backup |-> "none",
   status |-> "idle", calls |-> 0, raised |-> 0, backups_failed |-> 0,
   written |-> <<>>]
NoRad == [area_km2 |-> None, radius_km |-> 0, radius |-> 0, done |-> FALSE]
NoNet == [requested |-> FALSE, rate_sleeps |-> 0]
NoPol ==
  [name |-> <<>>, continent |-> <<>>, area |-> 0, result |-> FALSE,
   results |-> <<>>, countries_data |-> <<>>, processed |-> <<>>,
   skipped_count |-> 0, filtered_count |-> 0, status |-> "idle"]

InitLocals ==
  /\ exitCode = NoExit /\ out = {} /\ net = NoNet /\ retry = NoRetry
  /\ resp = NoResponse /\ gen = NoGen /\ sub = NoSub /\ wr = NoWr
  /\ rad = NoRad /\ pol = NoPol /\ exc = "none"

----------------------------------------------------------------------------
(* make_request_with_retry *)

\* the responses a caller may find in what make_request_with_retry
\* returned: None, or a response with one of the bodies of the url.  The
\* body of a lookup response is known from its arrival on, the others
\* when they are decoded
Decoded(url) ==
  IF ~resp.some THEN { Response(FALSE, NoBody) }
  ELSE IF url = "search" THEN { resp }
  ELSE { Response(TRUE, body) : body \in Bodies(url) }

StartRequest(url) == [NoRetry EXCEPT !.url = url]

ReturnPc(url) ==
  IF url = "countries" THEN "countries_response"
  ELSE IF url = "search" THEN "search_response"
  ELSE "children_response"

\* a variant that sleeps after the last attempt too
retry_sleeps_every_attempt(attempt, max_retries) ==
  <<RETRY_DELAY * (attempt + 1)>>

\* the sleeps after the failed attempt number attempt (from 0)
retry_sleeps(attempt, max_retries) ==
  IF attempt < max_retries - 1 THEN <<RETRY_DELAY * (attempt + 1)>> ELSE <<>>

\* range(max_retries) is not exhausted
retry_continues(attempt, max_retries) == attempt + 1 < max_retries

\* requests.get succeeds and raise_for_status passes: return response
RequestOk ==
  /\ pc = "request"
  /\ \E body \in (IF retry.url = "search" THEN Bodies("search") ELSE {NoBody}) :
       resp' = Response(TRUE, body)
  /\ net' = [net EXCEPT !.requested = TRUE]
  /\ retry' = [retry EXCEPT !.nreq = @ + 1]
  /\ pc' = ReturnPc(retry.url)
  /\ UNCHANGED <<entry, args, exitCode, out, gen, sub, fs, wr, rad, pol, exc>>

\* one failed attempt: kind is "timeout" (requests.exceptions.Timeout) or
\* "error" (any other RequestException); the two clauses differ in the
\* lines they print, which are not kept
RequestFail(kind) ==
  /\ pc = "request"
  /\ net' = [net EXCEPT !.requested = TRUE]
  /\ retry' = [retry EXCEPT
       !.nreq = @ + 1,
       !.slept = @ \o retry_sleeps(retry.attempt, retry.max_retries),
       !.attempt = @ + 1]
  /\ IF retry_continues(retry.attempt, retry.max_retries)
       THEN pc' = pc /\ resp' = resp
       ELSE pc' = ReturnPc(retry.url) /\ resp' = NoResponse
  /\ UNCHANGED <<entry, args, exitCode, out, gen, sub, fs, wr, rad, pol, exc>>

RequestTimeout == RequestFail("timeout")
RequestError == RequestFail("error")

----------------------------------------------------------------------------
(* main: arguments, the except clauses, the exit *)

\* handle_error is called with the exception, not with args: it prints the
\* failure line and the troubleshooting hint, then reading .verbose of the
\* exception raises AttributeError
handle_error ==
  [printed |-> {"failed", "troubleshooting"}, raises |-> TRUE]

\* a variant in which the handler's failure ends the process with status 0
except_exit_code_success(raises) == IF raises THEN 0 ELSE 1

\* the exit status of `except Exception`: sys.exit(1) when handle_error
\* returns, and the interpreter's status 1 for the uncaught AttributeError
except_exit_code(raises) == 1

\* the process ends: its locals are gone
ExitWith(code, printed, e) ==
  /\ exitCode' = code
  /\ out' = out \cup printed
  /\ exc' = e
  /\ pc' = "exited"
  /\ retry' = NoRetry /\ resp' = NoResponse /\ gen' = NoGen /\ sub' = NoSub

\* except Exception as e: handle_error(e); sys.exit(1)
MainExcept(e) ==
  ExitWith(except_exit_code(handle_error.raises),
           handle_error.printed
             \cup (IF handle_error.raises THEN {"traceback"} ELSE {}),
           e)

IsBlank(s) == s = <<>> \/ py_strip(s) = <<>>

\* a variant that tests the output path without .strip()
validate_arguments_unstripped(a) ==
  IF a.limit < 1 THEN "limit_error"
  ELSE IF a.output = <<>> THEN "output_error"
  ELSE "ok"

\* the error validate_arguments prints before sys.exit(1), or "ok"
validate_arguments(a) ==
  IF a.limit < 1 THEN "limit_error"
  ELSE IF IsBlank(a.output) THEN "output_error"
  ELSE "ok"

ValidateArguments ==
  /\ pc = "validate_arguments"
  /\ IF validate_arguments(args) # "ok"
       THEN ExitWith(1, {validate_arguments(args)}, "SystemExit")
     ELSE
       \* print_generation_info, then generate_regions up to the first request
       /\ out' = out \cup {"generation_info"}
       /\ gen' = [gen EXCEPT
            !.state_limit = IF args.limit < 1 THEN 10 ELSE args.limit]
       /\ retry' = StartRequest("countries")
       /\ pc' = "request"
       /\ UNCHANGED <<exitCode, exc, resp, sub>>
  /\ UNCHANGED <<entry, args, net, fs, wr, rad, pol>>

----------------------------------------------------------------------------
(* generate_regions *)

\* fetch_countries_data on the returned response: the list, or the
\* exception raised
fetch_countries_data(response) ==
  IF ~response.some THEN [kind |-> "fetch_failed", v |-> <<>>]
  ELSE IF response.body.json = "invalid"
    THEN [kind |-> "json_invalid", v |-> <<>>]
  ELSE IF response.body.json # "list" THEN [kind |-> "not_a_list", v |-> <<>>]
  ELSE [kind |-> "ok", v |-> response.body.items]

\* main from the return of generate_regions to the call of safe_write_json
CallWriter(regions_data, g) ==
  /\ gen' = [g EXCEPT !.state_limit = 0, !.regions = <<>>,
                      !.regions_data = regions_data]
  /\ sub' = NoSub /\ retry' = NoRetry /\ resp' = NoResponse
  /\ wr' = [wr EXCEPT !.data = regions_data, !.temp_path = FALSE,
                      !.backup = "none", !.status = "running",
                      !.calls = @ + 1]
  /\ pc' = "w_backup"

\* lines 693-725 and main's checks of the result, which cannot fail once
\* generate_regions has returned
FinishGenerate(regions, g) ==
  LET r == assemble_regions(regions, args.prioritize, ~args.no_metadata) IN
  IF r.kind = "raise" THEN
    /\ MainExcept("no_valid_regions")
    /\ UNCHANGED wr
  ELSE
    /\ CallWriter(r.v, g)
    /\ UNCHANGED <<exitCode, out, exc>>

\* the countries request has returned: generate_regions from line 667 to
\* its call of get_country_states, or to its end
CountriesReturn ==
  /\ pc = "countries_response"
  /\ \E response \in Decoded("countries") :
     LET fetched == fetch_countries_data(response)
         processed == process_country_data(fetched.v)
         \* the locals after process_country_data returned
         g == [gen EXCEPT
                 !.countries_data = fetched.v,
                 !.processed_count = Len(processed.processed_countries),
                 !.skipped_count = processed.skipped_count,
                 !.filtered_count = processed.filtered_count]
     IN
     IF fetched.kind # "ok" THEN
       /\ MainExcept(fetched.kind)
       /\ UNCHANGED wr
     ELSE IF processed.kind = "raise" THEN
       /\ MainExcept(IF fetched.v = <<>> THEN "no_countries_data"
                     ELSE "no_valid_countries")
       /\ UNCHANGED wr
     ELSE IF args.prioritize.some /\ ~IsBlank(args.prioritize.v) THEN
       /\ gen' = [g EXCEPT
            !.regions = country_regions(processed.processed_countries)]
       /\ sub' = [NoSub EXCEPT
            !.country_name = py_strip(args.prioritize.v),
            !.limit = gen.state_limit,
            !.countries_data = fetched.v]
       /\ pc' = "get_country_states"
       /\ retry' = NoRetry /\ resp' = NoResponse
       /\ UNCHANGED <<exitCode, out, exc, wr>>
     ELSE FinishGenerate(country_regions(processed.processed_countries), g)
  /\ UNCHANGED <<entry, args, net, fs, rad, pol>>

----------------------------------------------------------------------------
(* get_country_states and get_geoname_id *)

\* a variant that tries the lower-case name before the title-case one
search_names_lower_first(country_name) ==
  << py_strip(country_name), py_lower(py_strip(country_name)),
     py_title(py_strip(country_name)), py_upper(py_strip(country_name)) >>

search_names(country_name) ==
  << py_strip(country_name), py_title(py_strip(country_name)),
     py_lower(py_strip(country_name)), py_upper(py_strip(country_name)) >>

\* one lookup, after its rate-limit sleep
StartLookup(variant) ==
  /\ net' = [net EXCEPT !.rate_sleeps = @ + 1]
  /\ retry' = [StartRequest("search") EXCEPT
                 !.q = search_names(sub.country_name)[variant]]
  /\ pc' = "request"

\* get_country_states returns states; geonames is the list the subdivisions
\* request gave, <<>> if none
ReturnStates(states, geonames) ==
  /\ sub' = [sub EXCEPT !.status = "returned", !.states = states,
                        !.geonames = geonames, !.variant = 0]
  /\ net' = [net EXCEPT !.rate_sleeps = 0]
  /\ retry' = NoRetry
  /\ pc' = "states_done"

\* a variant without the except clause
get_country_states_reraise(tried, country_name, limit) == tried

\* what the except clause of get_country_states does with the outcome of
\* its try block: the regions, or the fallback when it raised
get_country_states_except(tried, country_name, limit) ==
  IF tried.kind = "raise"
    THEN [kind |-> "ok", v |-> get_fallback_regions(country_name, limit)]
    ELSE tried

GetCountryStates ==
  /\ pc = "get_country_states"
  /\ IF sub.country_name = <<>> \/ IsBlank(sub.country_name) \/ sub.limit <= 0
     THEN
       /\ sub' = [sub EXCEPT !.status = "returned", !.states = <<>>]
       /\ pc' = "states_done"
       /\ UNCHANGED <<net, retry>>
     ELSE
       \* get_geoname_id: the first name variant
       /\ sub' = [sub EXCEPT !.status = "running", !.variant = 1,
                             !.country_name = py_strip(sub.country_name)]
       /\ StartLookup(1)
  /\ UNCHANGED <<entry, args, exitCode, out, resp, gen, fs, wr, rad, pol, exc>>

\* get_geoname_id on the response of one variant: "found", "continue" with
\* the next variant, or "none" (the outer except returns None)
lookup_outcome(response) ==
  IF ~response.some THEN "continue"
  ELSE IF response.body.json = "invalid" THEN "continue"
  ELSE IF response.body.json # "dict" THEN "none"
  ELSE IF ~response.body.geonames_is_list \/ response.body.items = <<>>
    THEN "continue"
  ELSE IF ~response.body.items[1].is_dict THEN "none"
  ELSE IF response.body.items[1].geonameId # 0 THEN "found"
  ELSE "continue"

SearchReturn ==
  /\ pc = "search_response"
  /\ \E response \in Decoded("search") :
     LET outcome == lookup_outcome(response) IN
     IF outcome = "found" THEN
       \* fetch_geonames_data: the rate-limit sleep, then the request
       /\ sub' = [sub EXCEPT
            !.geoname_id = response.body.items[1].geonameId,
            !.variant = 0]
       /\ net' = [net EXCEPT !.rate_sleeps = 1]
       /\ retry' = StartRequest("children")
       /\ pc' = "request"
     ELSE IF outcome = "continue" /\ sub.variant < Len(search_names(sub.country_name))
     THEN
       /\ sub' = [sub EXCEPT !.variant = @ + 1]
       /\ StartLookup(sub.variant + 1)
     ELSE
       ReturnStates(get_fallback_regions(sub.country_name, sub.limit), <<>>)
  /\ resp' = NoResponse
  /\ UNCHANGED <<entry, args, exitCode, out, gen, fs, wr, rad, pol, exc>>

\* fetch_geonames_data on the returned response: [kind |-> "ok", v |-> the
\* list or None], or [kind |-> "raise"] when the body is no object
fetch_geonames_data(response) ==
  IF ~response.some THEN [kind |-> "ok", v |-> None]
  ELSE IF response.body.json = "invalid" THEN [kind |-> "ok", v |-> None]
  ELSE IF response.body.json # "dict" THEN [kind |-> "raise", v |-> None]
  ELSE IF ~response.body.geonames_is_list THEN [kind |-> "ok", v |-> None]
  ELSE [kind |-> "ok", v |-> Opt(response.body.items)]

\* the try block of get_country_states from line 544 on
states_from_geonames(fetched, country_name, limit, countries_data) ==
  IF fetched.kind = "raise" THEN [kind |-> "raise", v |-> <<>>]
  ELSE IF ~fetched.v.some \/ fetched.v.v = <<>>
    THEN [kind |-> "ok", v |-> get_fallback_regions(country_name, limit)]
  ELSE
  LET geonames == fetched.v.v IN
  \* sample.get(...) of the first place
  IF ~geonames[1].is_dict THEN [kind |-> "raise", v |-> <<>>]
  ELSE
  LET admin_divisions == filter_administrative_divisions(geonames) IN
  IF admin_divisions.kind = "raise" THEN [kind |-> "raise", v |-> <<>>]
  ELSE IF Len(admin_divisions.v) < limit \div 2
    THEN [kind |-> "ok", v |-> get_fallback_regions(country_name, limit)]
  ELSE
    convert_divisions_to_regions(
      Slice(SortBy(DivisionLess, admin_divisions.v), limit),
      country_name, countries_data)

ChildrenReturn ==
  /\ pc = "children_response"
  /\ \E response \in Decoded("children") :
     LET fetched == fetch_geonames_data(response)
         geonames == IF fetched.kind = "ok" /\ fetched.v.some
                       THEN fetched.v.v ELSE <<>>
         tried == states_from_geonames(fetched, sub.country_name, sub.limit,
                                       sub.countries_data)
         result == get_country_states_except(tried, sub.country_name,
                                             sub.limit)
     IN IF result.kind = "raise"
          THEN /\ sub' = [sub EXCEPT !.status = "raised", !.variant = 0,
                                     !.geonames = geonames]
               /\ net' = [net EXCEPT !.rate_sleeps = 0]
               /\ retry' = NoRetry
               /\ pc' = "states_done"
          ELSE ReturnStates(result.v, geonames)
  /\ resp' = NoResponse
  /\ UNCHANGED <<entry, args, exitCode, out, gen, fs, wr, rad, pol, exc>>

\* generate_regions after get_country_states: regions.extend(states) and on
StatesReturn ==
  /\ pc = "states_done"
  /\ entry = "main"
  /\ IF sub.status = "raised" THEN
       /\ MainExcept("get_country_states")
       /\ UNCHANGED wr
     ELSE FinishGenerate(gen.regions \o sub.states, gen)
  /\ UNCHANGED <<entry, args, net, fs, rad, pol>>

----------------------------------------------------------------------------
(* safe_write_json *)

\* safe_write_json ends, returning (status "returned") or raising
\* (status "raised"): main goes on to its summary or to its except clause,
\* a caller of the function alone notes the outcome
WriterEnds(status) ==
  /\ wr' = [wr EXCEPT
       !.status = status,
       !.raised = IF status = "raised" THEN @ + 1 ELSE @,
       !.written = IF status = "returned" THEN Append(@, wr.data) ELSE @]
  /\ IF entry = "main" /\ status = "raised" THEN MainExcept("write_failed")
     ELSE /\ pc' = IF entry = "main" THEN "print_statistics"
                   ELSE "writer_idle"
          /\ UNCHANGED <<exitCode, out, exc, retry, resp, gen, sub>>

\* a variant in which the copy never reaches backup_path
backup_after_copy_stale(ok, dest, backup) == {backup}

\* what shutil.copy2(filepath, backup_path) leaves at backup_path: the
\* copy, or after a failure the old backup or a truncated one
backup_after_copy(ok, dest, backup) ==
  IF ok THEN {dest} ELSE {backup, Partial(dest[1].data)}

\* lines 743-749
BackupStep ==
  /\ pc = "w_backup"
  /\ IF fs.dest = NoFile THEN
       /\ UNCHANGED <<fs, out>>
       /\ wr' = [wr EXCEPT !.backup = "none"]
     ELSE
       \E ok \in BOOLEAN :
         /\ \E b \in backup_after_copy(ok, fs.dest, fs.backup) :
              fs' = [fs EXCEPT !.backup = b]
         /\ out' = out \cup (IF ok THEN {"backup_created"}
                             ELSE {"backup_warning"})
         /\ wr' = [wr EXCEPT
              !.backup = IF ok THEN "ok" ELSE "failed",
              !.backups_failed = IF ok THEN @ ELSE @ + 1]
  /\ pc' = "w_temp"
  /\ UNCHANGED <<entry, args, exitCode, net, retry, resp, gen, sub, rad, pol, exc>>

\* write_temp_file: [temp |-> the file left on disk, path |-> whether the
\* name was returned to safe_write_json].  "create_failed": no file was
\* made; "dump_failed": json.dump or the closing flush raised inside the
\* with block, before `return temp_file.name`; "ok"
write_temp_file(outcome, data) ==
  IF outcome = "create_failed" THEN [temp |-> NoFile, path |-> FALSE]
  ELSE IF outcome = "dump_failed" THEN [temp |-> Partial(data), path |-> FALSE]
  ELSE [temp |-> File(data), path |-> TRUE]

\* the except clause of safe_write_json: the temp file left on disk.
\* unlinked is FALSE when os.unlink raised, which `except: pass` swallows
cleanup_temp(temp_path, temp, unlinked) ==
  IF temp_path /\ temp # NoFile THEN (IF unlinked THEN NoFile ELSE temp)
  ELSE temp

\* line 756
WriteTempStep ==
  /\ pc = "w_temp"
  /\ \E outcome \in {"create_failed", "dump_failed", "ok"} :
       LET w == write_temp_file(outcome, wr.data) IN
       IF outcome = "ok" THEN
         /\ fs' = [fs EXCEPT !.temp = w.temp]
         /\ wr' = [wr EXCEPT !.temp_path = w.path]
         /\ pc' = "w_move"
         /\ UNCHANGED <<exitCode, out, exc, retry, resp, gen, sub>>
       ELSE
         /\ \E unlinked \in BOOLEAN :
              fs' = [fs EXCEPT !.temp = cleanup_temp(w.path, w.temp, unlinked)]
         /\ WriterEnds("raised")
  /\ UNCHANGED <<entry, args, net, rad, pol>>

\* shutil.move(temp_path, filepath), line 758: what it leaves at the two
\* paths and whether it raised.  It tries os.rename, which replaces the
\* destination in one step ("renamed"); when os.rename raises OSError
\* (always on Windows when the destination exists) it falls back to
\* copy2 followed by os.unlink, and copy2 writes the destination in
\* place: "copied" when that completes, "copy_failed" when it raises part
\* way; "failed" when neither could touch the destination
MoveOutcomes == {"renamed", "copied", "copy_failed", "failed"}
shutil_move(outcome, temp, dest) ==
  IF outcome \in {"renamed", "copied"}
    THEN [dest |-> temp, temp |-> NoFile, raised |-> FALSE]
  ELSE IF outcome = "copy_failed"
    THEN [dest |-> Partial(temp[1].data), temp |-> temp, raised |-> TRUE]
  ELSE [dest |-> dest, temp |-> temp, raised |-> TRUE]

\* line 758 and, when it raised, the except clause of lines 761-768
MoveStep ==
  /\ pc = "w_move"
  /\ \E outcome \in MoveOutcomes :
       LET m == shutil_move(outcome, fs.temp, fs.dest) IN
       IF ~m.raised THEN
         /\ fs' = [fs EXCEPT !.dest = m.dest, !.temp = m.temp]
         /\ WriterEnds("returned")
       ELSE
         /\ \E unlinked \in BOOLEAN :
              fs' = [fs EXCEPT
                !.dest = m.dest,
                !.temp = cleanup_temp(wr.temp_path, m.temp, unlinked)]
         /\ WriterEnds("raised")
  /\ UNCHANGED <<entry, args, net, rad, pol>>

----------------------------------------------------------------------------
(* main: the end of a run *)

\* print_statistics and print_next_steps, then main returns
PrintStatistics ==
  /\ pc = "print_statistics"
  /\ ExitWith(0, {"statistics", "next_steps"}, "none")
  /\ UNCHANGED <<entry, args, net, fs, wr, rad, pol>>

\* the positions inside main's try block
TryPcs ==
  {"request", "countries_response", "get_country_states", "search_response",
   "children_response", "states_done", "w_backup", "w_temp", "w_move",
   "print_statistics"}

\* except KeyboardInterrupt: the message, then sys.exit(1)
except_keyboard_interrupt == [printed |-> {"cancelled"}, code |-> 1]

\* Ctrl-C inside the try block.  No except clause below main catches
\* KeyboardInterrupt, so a file being written stays as it is: the backup
\* under copy2, the temp file under json.dump, the destination under the
\* copy2 of shutil.move
Interrupt ==
  /\ entry = "main"
  /\ pc \in TryPcs
  /\ \E f \in
       (IF pc = "w_backup" /\ fs.dest # NoFile
          THEN { [fs EXCEPT !.backup = b] :
                   b \in backup_after_copy(FALSE, fs.dest, fs.backup) }
        ELSE IF pc = "w_temp"
          THEN { [fs EXCEPT !.temp = t] : t \in {NoFile, Partial(wr.data)} }
        ELSE IF pc = "w_move"
          THEN { [fs EXCEPT !.dest = d] :
                   d \in {fs.dest,
                          shutil_move("copy_failed", fs.temp, fs.dest).dest} }
        ELSE {fs}) :
       fs' = f
  /\ ExitWith(except_keyboard_interrupt.code,
              except_keyboard_interrupt.printed, "KeyboardInterrupt")
  /\ UNCHANGED <<entry, args, net, wr, rad, pol>>

----------------------------------------------------------------------------
(* A run of main *)

S_out == <<"o","u","t">>
OutputSamples == {S_out, <<" ">>, <<>>}
LimitSamples == {0, 1, 2}
PrioritizeSamples == {NoneStr, Opt(<<" ">>), Opt(S_japan), Opt(S_Fiji)}

MainArgs ==
  [limit : LimitSamples, output : OutputSamples,
   prioritize : PrioritizeSamples, no_metadata : BOOLEAN]

\* the output of two earlier runs
DataOf(countries_data) ==
  assemble_regions(
    country_regions(process_country_data(countries_data).processed_countries),
    NoneStr, FALSE).v
PrevData == DataOf(<<RC_Canada>>)
OlderData == DataOf(<<RC_Fiji>>)

Disk(dest, backup) ==
  [dest |-> dest, backup |-> backup, temp |-> NoFile, leaked |-> 0]
DiskSamples == {Disk(NoFile, NoFile), Disk(File(PrevData), File(OlderData))}

Init ==
  /\ entry = "main"
  /\ pc = "validate_arguments"
  /\ args \in MainArgs
  /\ fs \in DiskSamples
  /\ InitLocals

Next ==
  \/ ValidateArguments
  \/ RequestOk
  \/ RequestTimeout
  \/ RequestError
  \/ CountriesReturn
  \/ GetCountryStates
  \/ SearchReturn
  \/ ChildrenReturn
  \/ StatesReturn
  \/ BackupStep
  \/ WriteTempStep
  \/ MoveStep
  \/ PrintStatistics
  \/ Interrupt

Spec == Init /\ [][Next]_vars

----------------------------------------------------------------------------
(* get_country_states called alone *)

S_france == <<"f","r","a","n","c","e">>
NameSamples ==
  { S_japan, py_upper(S_japan), <<" ">> \o py_title(S_japan) \o <<" ">>,
    S_united_states, py_title(S_united_states), S_canada,
    py_title(S_australia), S_brazil, py_upper(S_germany),
    S_france, S_Fiji, <<" ">>, <<>> }
StateLimitSamples == {0, 1, 2, 5, 9, 16}

\* a record whose common name is a number
RC_NameNum ==
  RawCountry(JNum(7), <<JNum(0), JNum(0)>>, JNum(1), JStr(S_Asia), JMissing,
             JMissing)
CountriesDataSamples == { <<RC_Canada, RC_Japan>>, <<RC_NameNum>> }

NoArgs ==
  [limit |-> 0, output |-> <<>>, prioritize |-> NoneStr, no_metadata |-> FALSE]

InitStates ==
  /\ entry = "get_country_states"
  /\ pc = "get_country_states"
  /\ args = NoArgs
  /\ fs = Disk(NoFile, NoFile)
  /\ exitCode = NoExit /\ out = {} /\ net = NoNet /\ retry = NoRetry
  /\ resp = NoResponse /\ gen = NoGen /\ wr = NoWr /\ rad = NoRad
  /\ pol = NoPol
  /\ exc = "none"
  /\ \E n \in NameSamples, l \in StateLimitSamples,
        c \in CountriesDataSamples :
       sub = [NoSub EXCEPT !.country_name = n, !.limit = l,
                           !.countries_data = c]

NextStates ==
  \/ GetCountryStates
  \/ RequestOk
  \/ RequestTimeout
  \/ RequestError
  \/ SearchReturn
  \/ ChildrenReturn

SpecStates == InitStates /\ [][NextStates]_vars

----------------------------------------------------------------------------
(* safe_write_json called several times on one path *)

WriterData ==
  { DataOf(<<RC_Japan>>), DataOf(<<RC_Japan, RC_Canada>>), PrevData }

WriterCall ==
  /\ pc = "writer_idle"
  /\ wr.calls < MaxWrites
  /\ \E data \in WriterData :
       wr' = [wr EXCEPT !.data = data, !.temp_path = FALSE,
                        !.backup = "none", !.status = "running",
                        !.calls = @ + 1]
  \* a temp file an earlier call left behind keeps its own name
  /\ fs' = [fs EXCEPT !.temp = NoFile,
                      !.leaked = IF fs.temp # NoFile THEN @ + 1 ELSE @]
  /\ pc' = "w_backup"
  /\ UNCHANGED <<entry, args, exitCode, out, net, retry, resp, gen, sub, rad, pol,
                 exc>>

InitWriter ==
  /\ entry = "safe_write_json"
  /\ pc = "writer_idle"
  /\ args = NoArgs
  /\ fs \in DiskSamples
  /\ InitLocals

NextWriter ==
  \/ WriterCall
  \/ BackupStep
  \/ WriteTempStep
  \/ MoveStep

SpecWriter == InitWriter /\ [][NextWriter]_vars

----------------------------------------------------------------------------
(* calculate_radius called alone *)

AreaStep == 50 * 1000
AreaSamples ==
  {None} \cup
  { Opt(a) : a \in {0 - 1, 0, 1000, 15000, 80000, 600000, 2000000,
                    7853, 7854, 125663, 125664, 785398, 785399,
                    3141592, 3141593}
                   \cup { k * AreaStep : k \in 0..MaxAreaK } }

CalculateRadius ==
  /\ pc = "calculate_radius"
  /\ rad' = [rad EXCEPT
       !.radius_km = IF rad.area_km2.some /\ rad.area_km2.v > 0
                       THEN radius_km_of(rad.area_km2.v) ELSE 0,
       !.radius = calculate_radius(rad.area_km2),
       !.done = TRUE]
  /\ pc' = "radius_done"
  /\ UNCHANGED <<entry, args, exitCode, out, net, retry, resp, gen, sub, fs,
                 wr, pol, exc>>

InitRadius ==
  /\ entry = "calculate_radius"
  /\ pc = "calculate_radius"
  /\ args = NoArgs
  /\ fs = Disk(NoFile, NoFile)
  /\ exitCode = NoExit /\ out = {} /\ net = NoNet /\ retry = NoRetry
  /\ resp = NoResponse /\ gen = NoGen /\ sub = NoSub /\ wr = NoWr
  /\ exc = "none"
  /\ pol = NoPol
  /\ \E a \in AreaSamples : rad = [NoRad EXCEPT !.area_km2 = a]

NextRadius == CalculateRadius

SpecRadius == InitRadius /\ [][NextRadius]_vars

----------------------------------------------------------------------------
(* process_country_data called alone *)

\* an element that is no object, and one whose name is no object
RC_NotDict == [RC_Japan EXCEPT !.is_dict = FALSE]
RC_NameNotDict == [RC_Canada EXCEPT !.name_is_dict = FALSE]
\* region is a number: .strip() raises
RC_RegionNum == [RC_Canada EXCEPT !.region = JNum(7)]
\* a large African country in no allow-list
RC_Chad ==
  RawCountry(JStr(<<"C","h","a","d">>), <<JNum(15 * Scale), JNum(19 * Scale)>>,
             JNum(1284000), JStr(S_Africa), JMissing, JMissing)
ProcessSamples ==
  {RC_Japan, RC_Fiji, RC_Smallia, RC_Chad, RC_NoLatLng, RC_BadLat,
   RC_NameNum, RC_RegionNum, RC_NotDict, RC_NameNotDict}

ProcessCountryData ==
  /\ pc = "process_country_data"
  /\ LET r == process_country_data(pol.countries_data) IN
     pol' = [pol EXCEPT
       !.processed = r.processed_countries,
       !.skipped_count = r.skipped_count,
       !.filtered_count = r.filtered_count,
       !.status = IF r.kind = "raise" THEN "raised" ELSE "returned"]
  /\ pc' = "process_done"
  /\ UNCHANGED <<entry, args, exitCode, out, net, retry, resp, gen, sub, fs,
                 wr, rad, exc>>

InitProcess ==
  /\ entry = "process_country_data"
  /\ pc = "process_country_data"
  /\ args = NoArgs
  /\ fs = Disk(NoFile, NoFile)
  /\ exitCode = NoExit /\ out = {} /\ net = NoNet /\ retry = NoRetry
  /\ resp = NoResponse /\ gen = NoGen /\ sub = NoSub /\ wr = NoWr
  /\ rad = NoRad /\ exc = "none"
  /\ \E cs \in SeqsUpTo(ProcessSamples, MaxCountries) :
       pol = [NoPol EXCEPT !.countries_data = cs]

NextProcess == ProcessCountryData

SpecProcess == InitProcess /\ [][NextProcess]_vars

----------------------------------------------------------------------------
(* is_well_known_country called alone, several times on one triple *)

S_Chad == <<"C","h","a","d">>
PolicyNames ==
  major_countries \cup well_known_african \cup well_known_small
    \cup {<<>>, S_Chad, S_Smallia}
PolicyAreas == {0, 500, 10000, 10001, 1284000}

IsWellKnownCountry ==
  /\ pc = "is_well_known_country"
  /\ Len(pol.results) < MaxPolicyCalls
  /\ pol' = [pol EXCEPT
       !.result = is_well_known_country(pol.name, pol.continent, pol.area),
       !.results = Append(@, is_well_known_country(pol.name, pol.continent,
                                                   pol.area)),
       !.status = "done"]
  /\ UNCHANGED <<entry, pc, args, exitCode, out, net, retry, resp, gen, sub,
                 fs, wr, rad, exc>>

InitPolicy ==
  /\ entry = "is_well_known_country"
  /\ pc = "is_well_known_country"
  /\ args = NoArgs
  /\ fs = Disk(NoFile, NoFile)
  /\ exitCode = NoExit /\ out = {} /\ net = NoNet /\ retry = NoRetry
  /\ resp = NoResponse /\ gen = NoGen /\ sub = NoSub /\ wr = NoWr
  /\ rad = NoRad /\ exc = "none"
  /\ \E n \in PolicyNames, c \in Continents, a \in PolicyAreas :
       pol = [NoPol EXCEPT !.name = n, !.continent = c, !.area = a]

NextPolicy == IsWellKnownCountry

SpecPolicy == InitPolicy /\ [][NextPolicy]_vars

----------------------------------------------------------------------------
(* Properties of a run of main (Spec) *)

\* the exceptions main's `except Exception` clause receives
FatalKinds ==
  {"fetch_failed", "json_invalid", "not_a_list", "no_countries_data",
   "no_valid_countries", "no_valid_regions", "get_country_states",
   "write_failed"}

C2_BadArgumentsTouchNothing ==
  (args.limit < 1 \/ args.output \in {<<>>, <<" ">>}) =>
    /\ pc \in {"validate_arguments", "exited"}
    /\ ~net.requested /\ retry = NoRetry
    /\ wr = NoWr /\ fs \in DiskSamples
    /\ (pc = "exited" => exitCode = 1 /\ exc = "SystemExit")

\* a run ended by a blank output path
C2_Witness ==
  /\ pc = "exited" /\ args.limit >= 1 /\ args.output = <<" ">>
  /\ exitCode = 1 /\ "output_error" \in out

ResponsePcs == {"countries_response", "search_response", "children_response"}

\* C3: make_request_with_retry issues at most 3 requests; the sleeps so
\* far are k x RETRY_DELAY after the k-th failure for k = 1, 2 and none
\* after the third; it returns at the first success without a further
\* request, returns None only after 3 failures, and fetch_countries_data
\* then raises the fatal error, which ends the run with status 1.
C3_RetryPolicy ==
  /\ retry.nreq <= 3
  /\ retry.slept =
       [k \in 1..Min(retry.attempt, 2) |-> k * RETRY_DELAY]
  /\ (pc = "request" => retry.nreq = retry.attempt /\ retry.attempt < 3)
  /\ (pc \in ResponsePcs /\ resp.some => retry.nreq = retry.attempt + 1)
  /\ (pc \in ResponsePcs /\ ~resp.some =>
        retry.attempt = 3 /\ retry.nreq = 3)
  /\ (pc = "countries_response" /\ ~resp.some =>
        \A r \in Decoded("countries") :
          fetch_countries_data(r).kind = "fetch_failed")
  /\ (exc = "fetch_failed" => exitCode = 1)

\* the countries request has failed three times
C3_Witness ==
  /\ pc = "countries_response" /\ ~resp.some
  /\ retry.nreq = 3 /\ retry.slept = <<RETRY_DELAY, 2 * RETRY_DELAY>>

ValidRegion(r) ==
  /\ 0 - 90 * Scale <= r.lat /\ r.lat <= 90 * Scale
  /\ 0 - 180 * Scale <= r.lng /\ r.lng <= 180 * Scale
  /\ \A s \in {r.name, r.continent, r.type} :
       s # <<>> /\ s[1] # " " /\ s[Len(s)] # " "
  /\ r.radius >= 1
  /\ r.continent \in
       {S_Africa, S_NorthAmerica, S_SouthAmerica, S_Asia, S_Europe,
        S_Oceania, S_Unknown}
  /\ r.type \in {S_country, S_region}

AllValid(regions) == \A i \in DOMAIN regions : ValidRegion(regions[i])

\* C9: every region generate_regions returns, and so every region handed
\* to the writer or stored in the output file, has its latitude in
\* [-90, 90], its longitude in [-180, 180], a non-empty trimmed name,
\* continent and type, a radius of at least 1, a continent of the
\* enumeration and the type country or region.
C9_RegionsValid ==
  /\ AllValid(gen.regions_data.regions)
  /\ AllValid(wr.data.regions)
  /\ (fs.dest # NoFile => AllValid(fs.dest[1].data.regions))
  /\ (fs.temp # NoFile => AllValid(fs.temp[1].data.regions))

\* generate_regions has returned countries and subdivisions
C9_Witness ==
  /\ pc = "w_backup" /\ gen.regions_data.some
  /\ \E i, j \in DOMAIN gen.regions_data.regions :
       /\ gen.regions_data.regions[i].type = S_country
       /\ gen.regions_data.regions[j].type = S_region

KeyLeq(x, y) ==
  \/ StrLess(x.continent, y.continent)
  \/ x.continent = y.continent /\ StrLeq(x.name, y.name)

\* C10: the regions generate_regions returns are in ascending order of
\* (continent, name): each entry's key is at most its successor's, the
\* countries and the subdivisions being interleaved under that order.
C10_RegionsSorted ==
  LET regions == gen.regions_data.regions IN
  \A i \in 1..(Len(regions) - 1) : KeyLeq(regions[i], regions[i + 1])

\* a country between two subdivisions, and two continents
C10_Witness ==
  LET regions == gen.regions_data.regions IN
  /\ \E i \in 1..(Len(regions) - 2) :
       /\ regions[i].type = S_region
       /\ regions[i + 1].type = S_country
       /\ regions[i + 2].type = S_region
  /\ \E i, j \in DOMAIN regions : regions[i].continent # regions[j].continent

----------------------------------------------------------------------------
(* Properties of safe_write_json (SpecWriter) *)

\* C4: whenever safe_write_json has raised, the temporary file it created
\* is no longer on disk.
C4_TempFileDeleted == wr.status = "raised" => fs.temp = NoFile

----------------------------------------------------------------------------
(* Properties of get_country_states (SpecStates) *)

\* states are the first entries of the fallback table of country_name
IsFallbackList(states, country_name) ==
  LET key == py_lower(country_name) IN
  /\ key \in DOMAIN fallback_data
  /\ Len(states) <= Len(fallback_data[key])
  /\ \A i \in DOMAIN states :
       /\ states[i].name =
            fallback_data[key][i].name \o <<",", " ">> \o py_title(country_name)
       /\ states[i].lat = fallback_data[key][i].lat
       /\ states[i].lng = fallback_data[key][i].lng

\* each of states is the conversion of a place of geonames
IsConvertedList(states, geonames, country_name) ==
  \A i \in DOMAIN states : \E j \in DOMAIN geonames :
    /\ geonames[j].is_dict /\ geonames[j].name.t = "str"
    /\ geonames[j].lat.t \in {"num", "numstr"}
    /\ geonames[j].lng.t \in {"num", "numstr"}
    /\ states[i].name =
         py_strip(geonames[j].name.s) \o <<",", " ">> \o py_title(country_name)
    /\ states[i].lat = geonames[j].lat.n
    /\ states[i].lng = geonames[j].lng.n

\* C6: get_country_states never raises; whatever the lookup and the
\* subdivisions request give, it returns the empty list, entries of the
\* country's fallback table, or conversions of places of the response.
C6_NeverRaises ==
  /\ sub.status # "raised"
  /\ (pc = "states_done" =>
        /\ sub.status = "returned"
        /\ \/ sub.states = <<>>
           \/ IsFallbackList(sub.states, sub.country_name)
           \/ /\ sub.geonames # <<>>
              /\ IsConvertedList(sub.states, sub.geonames, sub.country_name))

\* a place whose name is null made the filtering raise, and the fallback
\* entries were returned
C6_Witness ==
  /\ pc = "states_done" /\ sub.status = "returned"
  /\ \E j \in DOMAIN sub.geonames :
       sub.geonames[j].is_dict /\ sub.geonames[j].name.t = "null"
  /\ sub.states # <<>>
  /\ IsFallbackList(sub.states, sub.country_name)

Title_Japan == <<"J","a","p","a","n">>
Title_UnitedStates ==
  <<"U","n","i","t","e","d"," ","S","t","a","t","e","s">>
Title_Canada == <<"C","a","n","a","d","a">>
Title_Australia == <<"A","u","s","t","r","a","l","i","a">>
Title_Brazil == <<"B","r","a","z","i","l">>
Title_Germany == <<"G","e","r","m","a","n","y">>
FallbackTitles ==
  {Title_Japan, Title_UnitedStates, Title_Canada, Title_Australia,
   Title_Brazil, Title_Germany}

\* C7: when no lookup yields an identifier, get_country_states returns,
\* for a name that is one of the six countries of the fallback table in
\* any letter case, the first min(limit, table size) entries of the
\* table in table order, each named "<Place>, <Country in title case>"
\* with radius 3 and type region (5 entries for "japan" with limit 5),
\* and the empty list for any other country.
C7_FallbackEntries ==
  (pc = "states_done" /\ net.requested /\ sub.geoname_id = 0) =>
    IF \E t \in FallbackTitles : py_lower(t) = py_lower(sub.country_name)
    THEN
      LET title == CHOOSE t \in FallbackTitles :
                     py_lower(t) = py_lower(sub.country_name)
          table == fallback_data[py_lower(title)]
      IN /\ Len(sub.states) = Min(sub.limit, Len(table))
         /\ \A i \in DOMAIN sub.states :
              /\ sub.states[i].name = table[i].name \o <<",", " ">> \o title
              /\ sub.states[i].lat = table[i].lat
              /\ sub.states[i].lng = table[i].lng
              /\ sub.states[i].radius = 3
              /\ sub.states[i].type = S_region
         /\ (title = Title_Japan /\ sub.limit = 5 => Len(sub.states) = 5)
    ELSE sub.states = <<>>

\* get_country_states("japan", 5) after lookups without an identifier
C7_Witness ==
  /\ pc = "states_done" /\ net.requested /\ sub.geoname_id = 0
  /\ sub.country_name = S_japan /\ sub.limit = 5
  /\ Len(sub.states) = 5
  /\ sub.states[5].name = fallback_data[S_japan][5].name
                            \o <<",", " ">> \o Title_Japan

----------------------------------------------------------------------------
(* Properties of calculate_radius (SpecRadius) *)

\* the radius of an area by the rule <50 -> 2, <200 -> 4, <500 -> 8,
\* <1000 -> 12, else 20 on sqrt(area / pi), pi taken as 355/113:
\* sqrt(area / pi) < T exactly when area * 113 < 355 * T * T
RadiusByRule(area) ==
  IF ~area.some \/ area.v <= 0 THEN 2
  ELSE IF area.v * 113 < 355 * 50 * 50 THEN 2
  ELSE IF area.v * 113 < 355 * 200 * 200 THEN 4
  ELSE IF area.v * 113 < 355 * 500 * 500 THEN 8
  ELSE IF area.v * 113 < 355 * 1000 * 1000 THEN 12
  ELSE 20

\* a radius_km exactly on a boundary is in the higher bucket
BoundaryInHigherBucket ==
  /\ (rad.radius_km = 50 => rad.radius = 4)
  /\ (rad.radius_km = 200 => rad.radius = 8)
  /\ (rad.radius_km = 500 => rad.radius = 12)
  /\ (rad.radius_km = 1000 => rad.radius = 20)

ClaimedRadius ==
  (0 :> 2) @@ (1000 :> 2) @@ (15000 :> 4) @@ (80000 :> 8)
    @@ (600000 :> 12) @@ (2000000 :> 20)
ComputedRadius ==
  (0 :> 2) @@ (1000 :> 2) @@ (15000 :> 4) @@ (80000 :> 4)
    @@ (600000 :> 8) @@ (2000000 :> 12)

\* C8 as stated: the areas 0, 1000, 15000, 80000, 600000 and 2000000 get
\* the radii 2, 2, 4, 8, 12 and 20, by the bucket rule.
C8_RadiusExamples ==
  rad.done =>
    /\ rad.radius = RadiusByRule(rad.area_km2)
    /\ BoundaryInHigherBucket
    /\ (rad.area_km2.some /\ rad.area_km2.v \in DOMAIN ClaimedRadius =>
          rad.radius = ClaimedRadius[rad.area_km2.v])

\* C8: the areas 0, 1000, 15000, 80000, 600000 and 2000000 get the radii
\* 2, 2, 4, 4, 8 and 12; the bucket is chosen from sqrt(area / pi) by
\* <50 -> 2, <200 -> 4, <500 -> 8, <1000 -> 12, else 20, a missing or
\* non-positive area gets 2, and a boundary value is in the higher bucket.
C8_RadiusBuckets ==
  rad.done =>
    /\ rad.radius = RadiusByRule(rad.area_km2)
    /\ BoundaryInHigherBucket
    /\ (rad.area_km2.some /\ rad.area_km2.v \in DOMAIN ComputedRadius =>
          rad.radius = ComputedRadius[rad.area_km2.v])

\* 80000 km2: radius_km is about 159.6, below 200
C8_Witness ==
  /\ rad.done /\ rad.area_km2 = Opt(80000)
  /\ rad.radius_km = 159 /\ rad.radius = 4

----------------------------------------------------------------------------
(* Properties of is_well_known_country (SpecPolicy) *)

\* the inclusion rule as the three cases of the policy
IncludedByRule(name, continent, area) ==
  \/ name \in major_countries
  \/ continent = S_Africa /\ name \in well_known_african
  \/ continent # S_Africa /\ (area > 10000 \/ name \in well_known_small)

----------------------------------------------------------------------------
(* Properties of process_country_data (SpecProcess) *)

IsText(j) == j.t \in {"str", "missing"}
TextOf(j) == IF j.t = "str" THEN py_strip(j.s) ELSE <<>>

\* the record is an object with a non-blank common name, two coordinates
\* in range and textual region, subregion and code
WellFormed(c) ==
  /\ c.is_dict /\ c.name_is_dict
  /\ c.common.t = "str" /\ TextOf(c.common) # <<>>
  /\ c.latlng_is_list /\ Len(c.latlng) = 2
  /\ \A k \in DOMAIN c.latlng : c.latlng[k].t \in {"num", "numstr"}
  /\ Len(c.latlng) = 2 =>
       /\ 0 - 90 * Scale <= c.latlng[1].n /\ c.latlng[1].n <= 90 * Scale
       /\ 0 - 180 * Scale <= c.latlng[2].n /\ c.latlng[2].n <= 180 * Scale
  /\ IsText(c.region) /\ IsText(c.subregion) /\ IsText(c.cca2)

Survives(c) ==
  /\ WellFormed(c)
  /\ is_well_known_country(
       TextOf(c.common),
       get_continent_name(TextOf(c.region), TextOf(c.subregion)),
       extract_area(c))

\* C12: a malformed record, or one whose processing raises, is skipped
\* and the records after it are still processed: the result of
\* process_country_data is the well-formed records that pass the
\* inclusion policy, in input order; when none survives the function
\* raises instead of returning an empty list.
C12_BadRecordsSkipped ==
  pol.status \in {"returned", "raised"} =>
    LET survivors == SelectSeq(pol.countries_data, Survives) IN
    /\ pol.status = "raised" <=> survivors = <<>>
    /\ Len(pol.processed) = Len(survivors)
    /\ \A i \in DOMAIN pol.processed :
         /\ pol.processed[i].name = TextOf(survivors[i].common)
         /\ pol.processed[i].lat = survivors[i].latlng[1].n
         /\ pol.processed[i].lng = survivors[i].latlng[2].n
    /\ pol.status = "returned" => pol.processed # <<>>
    /\ pol.skipped_count =
         Cardinality({ i \in DOMAIN pol.countries_data :
                         ~WellFormed(pol.countries_data[i]) })
    /\ pol.skipped_count + pol.filtered_count + Len(pol.processed)
         = Len(pol.countries_data)

\* the first record's name is a number, so its processing raises; the
\* second record is processed all the same
C12_Witness ==
  /\ pol.status = "returned"
  /\ pol.countries_data = <<RC_NameNum, RC_Japan>>
  /\ Len(pol.processed) = 1 /\ pol.processed[1].name = S_Japan
  /\ pol.skipped_count = 1

----------------------------------------------------------------------------
(* Properties of a run of main on the three-record response (Spec) *)

NotPrioritized == ~args.prioritize.some \/ args.prioritize.v \in {<<>>, <<" ">>}

\* C13: for the response of three records (Japan, a country of 500 km2 in
\* no allow-list, a record without latlng) and no prioritized country,
\* generate_regions returns exactly one region, the country Japan, and
\* that is what the output file holds; one record was filtered and one
\* skipped; in every run the surviving, filtered and skipped records add
\* up to the records of the response.
C13_ThreeRecordRun ==
  /\ gen.processed_count + gen.filtered_count + gen.skipped_count
       = Len(gen.countries_data)
  /\ (gen.countries_data = ThreeCountries =>
        /\ gen.processed_count = 1
        /\ gen.filtered_count = 1
        /\ gen.skipped_count = 1)
  /\ (gen.countries_data = ThreeCountries /\ NotPrioritized
        /\ gen.regions_data.some =>
        /\ Len(gen.regions_data.regions) = 1
        /\ gen.regions_data.regions[1].name = <<"J","a","p","a","n">>
        /\ gen.regions_data.regions[1].type = S_country
        /\ gen.regions_data.regions[1].continent = S_Asia
        /\ gen.regions_data.regions[1].lat = 36 * Scale
        /\ gen.regions_data.regions[1].lng = 138 * Scale
        /\ (pc = "print_statistics" => fs.dest = File(gen.regions_data)))

\* the run on the three records has written its file
C13_Witness ==
  /\ pc = "print_statistics" /\ ~args.prioritize.some
  /\ gen.countries_data = ThreeCountries
  /\ fs.dest = File(gen.regions_data)
  /\ Len(fs.dest[1].data.regions) = 1

----------------------------------------------------------------------------
(* Properties of the subdivisions path (SpecStates) *)

\* the place passes the feature-code, name and coordinate filter
IsCandidate(place) ==
  /\ place.is_dict
  /\ place.fcode.t = "str"
  /\ place.fcode.s \in {F_ADM1, F_ADM2, F_PPLA, F_PPLC, F_PPLA2, F_PPL}
  /\ place.name.t = "str" /\ py_strip(place.name.s) # <<>>
  /\ place.lat.t \in {"num", "numstr"} /\ place.lng.t \in {"num", "numstr"}
  /\ 0 - 90 * Scale <= place.lat.n /\ place.lat.n <= 90 * Scale
  /\ 0 - 180 * Scale <= place.lng.n /\ place.lng.n <= 180 * Scale

Candidates(geonames) == { j \in DOMAIN geonames : IsCandidate(geonames[j]) }

\* C14: whenever fewer than limit/2 places of the subdivisions response
\* survive the filter, get_country_states returns the fallback entries
\* instead of regions made from the response, for every limit >= 1.
C14_FallbackBelowHalf ==
  (/\ pc = "states_done" /\ sub.geoname_id # 0 /\ sub.limit >= 1
   /\ sub.geonames # <<>>
   /\ 2 * Cardinality(Candidates(sub.geonames)) < sub.limit)
  => sub.states = get_fallback_regions(sub.country_name, sub.limit)

----------------------------------------------------------------------------
(* Properties of get_geoname_id (SpecStates) *)

\* the lookup response carries a non-empty result list
HasResult(r) ==
  /\ r.some /\ r.body.json = "dict" /\ r.body.geonames_is_list
  /\ r.body.items # <<>>
\* ... whose first entry carries an identifier
HasId(r) ==
  HasResult(r) /\ r.body.items[1].is_dict /\ r.body.items[1].geonameId # 0
\* the response cannot be read as a result list at all: the body is no
\* object, or the first entry of the list is none
Unreadable(r) ==
  /\ r.some
  /\ \/ r.body.json \in {"list", "scalar"}
     \/ HasResult(r) /\ ~r.body.items[1].is_dict

Upper_Japan == <<"J","A","P","A","N">>
Lower_Japan == <<"j","a","p","a","n">>

\* the name looked up by variant k of country_name: as-is, title case,
\* lower case, upper case
VariantInOrder ==
  /\ sub.variant \in 1..4
  /\ retry.q = CASE sub.variant = 1 -> sub.country_name
                 [] sub.variant = 2 -> py_title(sub.country_name)
                 [] sub.variant = 3 -> py_lower(sub.country_name)
                 [] sub.variant = 4 -> py_upper(sub.country_name)
  /\ (sub.country_name \in {Lower_Japan, Title_Japan, Upper_Japan} =>
        retry.q = CASE sub.variant = 1 -> sub.country_name
                    [] sub.variant = 2 -> Title_Japan
                    [] sub.variant = 3 -> Lower_Japan
                    [] sub.variant = 4 -> Upper_Japan)
  \* one rate-limit sleep before the lookup of each variant so far
  /\ net.rate_sleeps = sub.variant

NextVariant ==
  /\ pc' = "request" /\ retry'.url = "search"
  /\ sub'.variant = sub.variant + 1
  /\ net'.rate_sleeps = net.rate_sleeps + 1

NoIdentifier ==
  /\ pc' = "states_done" /\ sub'.geoname_id = 0
  /\ sub'.states = get_fallback_regions(sub.country_name, sub.limit)

\* C15 as stated: the variants are looked up in the order as-is, title,
\* lower, upper, each after a rate-limit sleep; after a response with a
\* non-empty result no later variant is tried; after the fourth variant
\* without a match no identifier is returned and get_country_states
\* returns the fallback entries.
C15_FirstResultWins ==
  [][pc = "search_response" =>
       /\ VariantInOrder
       /\ (HasResult(resp) => ~(pc' = "request" /\ retry'.url = "search"))
       /\ (~HasResult(resp) /\ sub.variant = 4 => NoIdentifier)]_vars

\* C15: the variants are looked up in the order as-is, title, lower,
\* upper, at most 4, each after a rate-limit sleep; the lookup stops at
\* the first response whose non-empty result carries an identifier and
\* the subdivisions request follows; a response without a result, or
\* whose first entry has no identifier, makes it try the next variant;
\* after the fourth variant without an identifier, or after an unreadable
\* response, no identifier is returned and get_country_states returns
\* the fallback entries.
C15_FirstIdentifierWins ==
  [][pc = "search_response" =>
       /\ VariantInOrder
       /\ (HasId(resp) =>
             /\ pc' = "request" /\ retry'.url = "children"
             /\ sub'.geoname_id = resp.body.items[1].geonameId)
       /\ (~HasId(resp) /\ ~Unreadable(resp) /\ sub.variant < 4 =>
             NextVariant)
       /\ (~HasId(resp) /\ (Unreadable(resp) \/ sub.variant = 4) =>
             NoIdentifier)]_vars

\* the title-case variant of "japan", looked up second, has an identifier
C15_Witness ==
  /\ pc = "search_response" /\ sub.country_name = Lower_Japan
  /\ sub.variant = 2 /\ retry.q = Title_Japan /\ net.rate_sleeps = 2
  /\ HasId(resp)

----------------------------------------------------------------------------
(* Properties of the ranking of the API results (SpecStates) *)

\* get_country_states has returned regions made from the subdivisions
\* response: an identifier was found, the response is a non-empty list
\* that starts with an object, no object in it has a name that is no
\* string, enough candidates passed the filter, and the continent of the
\* country could be looked up
ApiDerived ==
  /\ pc = "states_done" /\ sub.geoname_id # 0
  /\ sub.geonames # <<>> /\ sub.geonames[1].is_dict
  /\ \A j \in DOMAIN sub.geonames :
       sub.geonames[j].is_dict => sub.geonames[j].name.t \in {"str", "missing"}
  /\ Cardinality(Candidates(sub.geonames)) >= sub.limit \div 2
  /\ get_continent_for_country(sub.country_name, sub.countries_data).kind
       = "ok"

Rank(place) ==
  CASE place.fcode.s = F_ADM1 -> 1
    [] place.fcode.s \in {F_PPLA, F_PPLC} -> 2
    [] place.fcode.s = F_ADM2 -> 3
    [] place.fcode.s = F_PPLA2 -> 4
    [] place.fcode.s = F_PPL -> 5
    [] OTHER -> 6

\* x ranks strictly before y by (priority, name)
RanksBefore(x, y) ==
  \/ Rank(x) < Rank(y)
  \/ Rank(x) = Rank(y) /\ StrLess(py_strip(x.name.s), py_strip(y.name.s))

\* C16: the regions get_country_states makes from the API response are
\* the first limit candidates by (feature-code priority, name): at most
\* limit entries, each the conversion of a different candidate with a
\* feature code of the valid set, named "<division>, <Country in title
\* case>" with radius 3 and type region, in rank order, and no omitted
\* candidate ranks strictly before a returned one.
C16_RankedCandidates ==
  ApiDerived =>
    LET cands == Candidates(sub.geonames) IN
    /\ Len(sub.states) = Min(sub.limit, Cardinality(cands))
    /\ \E sel \in [DOMAIN sub.states -> cands] :
         /\ \A i, k \in DOMAIN sub.states : i # k => sel[i] # sel[k]
         /\ \A i \in DOMAIN sub.states :
              LET place == sub.geonames[sel[i]] IN
              /\ place.fcode.s \in
                   {F_ADM1, F_ADM2, F_PPLA, F_PPLC, F_PPLA2, F_PPL}
              /\ sub.states[i].name =
                   py_strip(place.name.s) \o <<",", " ">>
                     \o py_title(sub.country_name)
              /\ sub.states[i].lat = place.lat.n
              /\ sub.states[i].lng = place.lng.n
              /\ sub.states[i].radius = 3
              /\ sub.states[i].type = S_region
         /\ \A i, k \in DOMAIN sub.states :
              i < k => ~RanksBefore(sub.geonames[sel[k]], sub.geonames[sel[i]])
         /\ \A j \in cands \ { sel[i] : i \in DOMAIN sub.states } :
              \A i \in DOMAIN sub.states :
                ~RanksBefore(sub.geonames[j], sub.geonames[sel[i]])

\* two candidates and limit 1: the first-order division that came second
\* in the response is returned, the city that came first is omitted
C16_Witness ==
  /\ ApiDerived /\ sub.limit = 1 /\ sub.country_name = Lower_Japan
  /\ sub.geonames = <<P_Tokyo, P_Hokkaido>>
  /\ Len(sub.states) = 1
  /\ sub.states[1].name = S_Hokkaido \o <<",", " ">> \o Title_Japan

----------------------------------------------------------------------------
(* Properties of the metadata (Spec) *)

RECURSIVE SumOf(_, _)
SumOf(f, S) ==
  IF S = {} THEN 0
  ELSE LET x == CHOOSE x \in S : TRUE IN f[x] + SumOf(f, S \ {x})

\* C17: in attached metadata, fallback_regions_used is true only when
\* get_country_states was called for a prioritized country and false
\* when there is no prioritized country or a blank one; and
\* country_count + state_count = total_regions = the sum of
\* continents_coverage = the length of the regions list.
C17_MetadataConsistent ==
  (gen.regions_data.some /\ gen.regions_data.has_metadata) =>
    LET m == gen.regions_data.metadata IN
    /\ m.fallback_regions_used <=> ~NotPrioritized
    /\ m.country_count + m.state_count = m.total_regions
    /\ m.total_regions = Len(gen.regions_data.regions)
    /\ m.total_regions =
         SumOf(m.continents_coverage, DOMAIN m.continents_coverage)

----------------------------------------------------------------------------
(* Properties of the files of a run of main (Spec) *)

\* the files as some run found them
Untouched == fs \in DiskSamples

\* C18: a run that has not called safe_write_json has left the destination
\* and its backup as they were; safe_write_json is called only with a
\* non-empty regions list returned by generate_regions; and at every point
\* of a run the destination is absent as before, or holds the complete
\* previous content or the complete new content, never a partial one.
C18_DestinationIntact ==
  /\ wr.calls = 0 => Untouched
  /\ wr.calls > 0 => wr.data.some /\ wr.data.regions # <<>>
  /\ pc \in {"w_backup", "w_temp", "w_move"} => wr.data = gen.regions_data
  /\ fs.dest \in {NoFile, File(PrevData), File(wr.data)}

====
